---- MODULE Spec2Model ----
(***************************************************************************)
(* A model of the orchestration core of the interactive-pdf-mapper module: *)
(* the tolerance checker, the retry engine and its escalation table, the   *)
(* validation coordinator and the field detector.                          *)
(*                                                                         *)
(* Numbers: coordinates, differences and tolerances are fixed-point, in    *)
(* tenths of a unit (0.5 is 5); confidence thresholds are in hundredths    *)
(* (0.95 is 95); zoom levels are in tenths (1.5 is 15).                    *)
(***************************************************************************)
EXTENDS Integers, Sequences, FiniteSets, TLC

VARIABLES
    \* ---- configuration and RetryEngine (validation/retry_engine.py)
    max_attempts,       \* RetryEngine._max_attempts (config.validation.max_retries)
    parameters,         \* RetryEngine._parameters   (config.retry_parameters)
    retry_pool,         \* RetryEngine._retry_pool: sequence of field indices
    \* ---- a client of get_parameters_for_attempt
    gpc,                \* "idle" | "got"
    lastAttempt,        \* the attempt number last asked for
    lastParams,         \* what get_parameters_for_attempt returned for it
    \* ---- ToleranceChecker (validation/tolerance.py)
    tolerance,          \* ToleranceChecker._tolerance
    tExpected,          \* the expected box handed to check
    tMeasured,          \* the measured box handed to check
    tResult,            \* the tuple check returned, or NoResult
    \* ---- ValidationCoordinator (validation/coordinator.py)
    fields,             \* the list handed to validate_all_fields (mutated in place)
    initFields,         \* the list as it was when first handed over
    vpc,                \* "idle" | "loop" | "await" | "returned" | "raised"
    idx,                \* position of the for loop, 1-based
    validated_fields,   \* local list of validate_all_fields
    passed_count,       \* local counter
    skipped_count,      \* local counter
    max_retries_used,   \* local
    summary,            \* the ValidationSummary returned, or NoSummary
    callParams,         \* parameters of the measurement call in flight
    calls,              \* per field, the measurement calls made: attempt, parameters, result
    rounds,             \* number of validate_all_fields invocations so far
    batch_size,         \* fields per progress update, as handed to validate_all_fields
    progress_reports,   \* what progress_callback was called with, in order
    \* ---- FieldDetector (vision/detector.py)
    max_concurrent_requests, \* config.glm.max_concurrent_requests
    semaphore,          \* FieldDetector._semaphore: free permits
    page_count,         \* len(page_images)
    dpc,                \* "idle" | "gather" | "returned" | "raised"
    task,               \* per page: "waiting" | "inflight" | "done" | "failed" | "collected"
    taskResult,         \* per page: the fields the detector returned
    completion,         \* pages in the order their tasks finished (as_completed)
    results_by_page,    \* local dict of detect_all_pages: page -> fields
    insertion,          \* key order of results_by_page (dict insertion order)
    completed_pages,    \* FieldDetector._completed_pages
    all_fields,         \* the field list returned by detect_all_pages
    \* ---- DiscoveryWorkflow (workflow/discovery.py) and its collaborators
    cache_enabled,      \* config.cache.enabled
    doc_readable,       \* per document: whether PDFLoader can open it now
    index_file,         \* cache-index.json in the cache directory, or NoFile
    instances,          \* per further orchestrator on that directory: its CacheIndex
    state,              \* StateManager._state, or NoState before the first run
    current_progress,   \* StateManager._current_progress, or None
    frame,              \* "none" | "run" | "resume": the method whose body is executing
    plan,               \* the steps the executing method still has to take
    outcome,            \* what the last finished call gave its caller
    resume_id,          \* the workflow id handed to resume(), 0 for run()
    next_id,            \* the next workflow id uuid4 hands out
    restart_phase,      \* the phase resume() continues from, "none" for run()
    checkpoints,        \* the checkpoint folder: workflow id -> file contents
    entries,            \* CacheIndex._entries: document hash -> CacheEntry
    sidecar,            \* the cache folder: document hash -> file contents
    outputs,            \* the output folder: document -> golden map file contents
    cp_result,          \* what the last save_checkpoint/load_checkpoint call gave
    cache_result,       \* what the last retrieve_golden_map/get_entry call gave
    last_stored,        \* per hash, the artifact of the last store_golden_map call that returned
    \* ---- observations of the call in progress and of the calls before it
    phases_started,     \* phases started by the call in progress, in order
    api_calls,          \* recognition/measurement calls made by the call in progress
    save_attempts,      \* save_checkpoint calls made by the call in progress
    cache_lookup,       \* what _check_cache found: "none" | "miss" | "no_artifact" | "hit"
    log                 \* the finished calls, oldest first

engineVars == <<max_attempts, parameters, retry_pool>>
paramVars  == <<gpc, lastAttempt, lastParams>>
tolVars    == <<tolerance, tExpected, tMeasured, tResult>>
valVars    == <<fields, initFields, vpc, idx, validated_fields, passed_count, batch_size, progress_reports,
                skipped_count, max_retries_used, summary, callParams, calls, rounds>>
detVars    == <<max_concurrent_requests, semaphore, page_count, dpc, task, taskResult,
                completion, results_by_page, insertion, completed_pages, all_fields>>
wfVars     == <<cache_enabled, doc_readable, index_file, instances, state, current_progress, frame, plan, outcome,
                resume_id, next_id, restart_phase, checkpoints, entries, sidecar,
                outputs, cp_result, cache_result, last_stored, phases_started,
                api_calls, save_attempts, cache_lookup, log>>
vars == <<engineVars, paramVars, tolVars, valVars, detVars, wfVars>>

----------------------------------------------------------------------------
(* Bounds of the model *)

\* fields in the list handed to validate_all_fields
MaxFields == 2
\* validate_all_fields invocations on the same list
MaxRounds == 2
\* how far config.validation.max_retries may exceed the table's 7 entries
MaxExtraAttempts == 1
\* coordinate values of the boxes handed to ToleranceChecker.check: 0..MaxCoord
MaxCoord == 2
\* tolerance values handed to ToleranceChecker: 0..MaxTolerance
MaxTolerance == 2
\* pages handed to detect_all_pages
MaxPages == 3
\* largest configured max_concurrent_requests
MaxConcurrent == 2
\* entries of retry_pool the retry-engine client may build up
MaxPool == 3
\* max_retries values small enough to explore lists of carried-over fields
MaxSmallRetries == 2
\* batch sizes handed to validate_all_fields: 1..MaxBatchSize
MaxBatchSize == 2
\* documents the workflow is run on: document d has d pages and d - 1 fields
MaxDocs == 2
\* run() and resume() calls made on the orchestrator
MaxCalls == 3
\* fields in a WorkflowState handed to save_checkpoint directly
MaxStateFields == 1

\* StateManager operations called in one behaviour
MaxOps == 3

----------------------------------------------------------------------------
(* core/types.py *)

FieldType == {"text-input", "signature", "date", "checkbox"}
ValidationStatus == {"pending", "passed", "skipped"}
DetectionSensitivity == <<"normal", "high", "very-high", "maximum">>

\* position of a sensitivity level in the enumeration, 0 for a value outside it
SensitivityRank(s) ==
    IF \E i \in 1..Len(DetectionSensitivity) : DetectionSensitivity[i] = s
    THEN CHOOSE i \in 1..Len(DetectionSensitivity) : DetectionSensitivity[i] = s
    ELSE 0

\* RetryParameters(confidence_threshold, detection_sensitivity,
\*                 zoom_level=1.0, contrast_enhancement=False, edge_detection=False)
RetryParameters(conf, sens, zoom, contrast, edge) ==
    [confidence_threshold |-> conf, detection_sensitivity |-> sens,
     zoom_level |-> zoom, contrast_enhancement |-> contrast, edge_detection |-> edge]

Coordinates(x, y, w, h) == [x |-> x, y |-> y, width |-> w, height |-> h]

----------------------------------------------------------------------------
(* core/config.py *)

DefaultMaxRetries == 7
DefaultTolerance == 5
DefaultMaxConcurrentRequests == 1
\* batch_size of validate_all_fields when the caller gives none
DefaultBatchSize == 10

default_retry_parameters_swapped ==
    (1 :> RetryParameters(95, "normal", 10, FALSE, FALSE)) @@
    (2 :> RetryParameters(90, "high", 10, FALSE, FALSE)) @@
    (3 :> RetryParameters(80, "very-high", 20, FALSE, FALSE)) @@
    (4 :> RetryParameters(85, "high", 15, FALSE, FALSE)) @@
    (5 :> RetryParameters(75, "very-high", 20, TRUE, FALSE)) @@
    (6 :> RetryParameters(70, "maximum", 25, TRUE, FALSE)) @@
    (7 :> RetryParameters(65, "maximum", 30, TRUE, TRUE))

\* DiscoveryConfig._default_retry_parameters
default_retry_parameters ==
    (1 :> RetryParameters(95, "normal", 10, FALSE, FALSE)) @@
    (2 :> RetryParameters(90, "high", 10, FALSE, FALSE)) @@
    (3 :> RetryParameters(85, "high", 15, FALSE, FALSE)) @@
    (4 :> RetryParameters(80, "very-high", 20, FALSE, FALSE)) @@
    (5 :> RetryParameters(75, "very-high", 20, TRUE, FALSE)) @@
    (6 :> RetryParameters(70, "maximum", 25, TRUE, FALSE)) @@
    (7 :> RetryParameters(65, "maximum", 30, TRUE, TRUE))

EmptyTable == [a \in {} |-> RetryParameters(0, "None", 10, FALSE, FALSE)]

\* DiscoveryConfig.__post_init__: an empty (falsy) table is replaced by the default
post_init(given) ==
    IF DOMAIN given = {} THEN default_retry_parameters ELSE given

----------------------------------------------------------------------------
(* validation/tolerance.py *)

NoResult == <<>>

abs(n) == IF n < 0 THEN 0 - n ELSE n

max(S) == CHOOSE m \in S : \A n \in S : n <= m

\* the four absolute component differences of two boxes
Differences(expected, measured) ==
    {abs(expected.x - measured.x), abs(expected.y - measured.y),
     abs(expected.width - measured.width), abs(expected.height - measured.height)}

check_strict(expected, measured) ==
    LET max_diff == max(Differences(expected, measured))
    IN  <<max_diff < tolerance, max_diff>>

\* ToleranceChecker.check: the tuple (passed, max_difference)
check(expected, measured) ==
    LET max_diff == max(Differences(expected, measured))
    IN  <<max_diff <= tolerance, max_diff>>

Boxes == [x : 0..MaxCoord, y : 0..MaxCoord, width : 0..MaxCoord, height : 0..MaxCoord]

\* a caller invokes check on the two boxes it holds
Check ==
    /\ tResult = NoResult
    /\ tResult' = check(tExpected, tMeasured)
    /\ UNCHANGED <<tolerance, tExpected, tMeasured>>
    /\ UNCHANGED <<engineVars, paramVars, valVars, detVars>>
    /\ UNCHANGED wfVars

\* ToleranceChecker.set_tolerance
SetTolerance(t) ==
    /\ tolerance' = t
    /\ tResult' = NoResult
    /\ UNCHANGED <<tExpected, tMeasured>>
    /\ UNCHANGED <<engineVars, paramVars, valVars, detVars>>
    /\ UNCHANGED wfVars

----------------------------------------------------------------------------
(* validation/retry_engine.py *)

FallbackParameters == RetryParameters(65, "None", 10, FALSE, FALSE)

\* RetryEngine.get_parameters_for_attempt
get_parameters_for_attempt(attempt) ==
    IF attempt \in DOMAIN parameters
    THEN parameters[attempt]
    ELSE IF max_attempts \in DOMAIN parameters
         THEN parameters[max_attempts]
         ELSE FallbackParameters

should_retry_inclusive(field) ==
    /\ field.validation_status # "passed"
    /\ field.retry_count <= max_attempts

\* RetryEngine.should_retry
should_retry(field) ==
    /\ field.validation_status # "passed"
    /\ field.retry_count < max_attempts

\* a caller asks the engine for the parameters of an attempt
GetParameters(a) ==
    /\ gpc' = "got"
    /\ lastAttempt' = a
    /\ lastParams' = get_parameters_for_attempt(a)
    /\ UNCHANGED <<engineVars, tolVars, valVars, detVars>>
    /\ UNCHANGED wfVars

----------------------------------------------------------------------------
(* workflow/state.py *)

\* WorkflowPhase: the members, and the string value of each
WorkflowPhase ==
    {"INIT", "LOADING", "DETECTION", "VALIDATION", "ORGANIZATION", "OUTPUT",
     "COMPLETE", "ERROR"}

PhaseValue(phase) ==
    CASE phase = "INIT" -> "init"
      [] phase = "LOADING" -> "loading"
      [] phase = "DETECTION" -> "detection"
      [] phase = "VALIDATION" -> "validation"
      [] phase = "ORGANIZATION" -> "organization"
      [] phase = "OUTPUT" -> "output"
      [] phase = "COMPLETE" -> "complete"
      [] phase = "ERROR" -> "error"

\* Python's None where a string may stand, and where an object may stand
NoError == "None"
NoState == <<>>
NoProgress == <<>>
NoOutcome == <<>>

\* PhaseProgress(phase=phase): a time is None (FALSE) or was stamped (TRUE)
PhaseProgress(phase) ==
    [phase |-> phase, started_at |-> FALSE, completed_at |-> FALSE,
     progress_percent |-> 0, items_total |-> 0, items_completed |-> 0,
     error_message |-> NoError]

\* WorkflowState(workflow_id=..., document_path=...); document_hash 0 is ""
WorkflowState(workflow_id, document_path) ==
    [workflow_id |-> workflow_id, document_path |-> document_path,
     document_hash |-> 0, current_phase |-> "INIT", phase_history |-> <<>>,
     pages |-> <<>>, detected_fields |-> <<>>, validated_fields |-> <<>>,
     retry_pool |-> <<>>, output_paths |-> {}, error |-> NoError]

\* StateManager.__init__: the manager as the pair of its two attributes
StateManager(workflow_id, document_path) ==
    [state |-> WorkflowState(workflow_id, document_path),
     current_progress |-> NoProgress]

update_progress_in_history(sm, items_completed) ==
    IF sm.current_progress # NoProgress
    THEN [sm EXCEPT !.current_progress.items_completed = items_completed]
    ELSE IF sm.state.phase_history # <<>>
    THEN [sm EXCEPT !.state.phase_history[Len(sm.state.phase_history)].items_completed =
                        items_completed]
    ELSE sm

set_error_unattached(sm, error_message) ==
    [state |-> [sm.state EXCEPT
                   !.error = error_message,
                   !.current_phase = "ERROR",
                   !.phase_history =
                       IF sm.current_progress # NoProgress
                       THEN Append(@, [sm.current_progress EXCEPT !.completed_at = TRUE])
                       ELSE @],
     current_progress |-> NoProgress]

start_phase_dropping(sm, phase, total_items) ==
    [state |-> [sm.state EXCEPT !.current_phase = phase],
     current_progress |-> [PhaseProgress(phase) EXCEPT
                              !.started_at = TRUE, !.items_total = total_items]]

start_phase_keeping_pointer(sm, phase, total_items) ==
    [state |-> [sm.state EXCEPT
                   !.phase_history =
                       IF sm.current_progress # NoProgress
                       THEN Append(@, [sm.current_progress EXCEPT !.completed_at = TRUE])
                       ELSE @],
     current_progress |-> [PhaseProgress(phase) EXCEPT
                              !.started_at = TRUE, !.items_total = total_items]]

\* StateManager.start_phase
start_phase(sm, phase, total_items) ==
    [state |-> [sm.state EXCEPT
                   !.phase_history =
                       IF sm.current_progress # NoProgress
                       THEN Append(@, [sm.current_progress EXCEPT !.completed_at = TRUE])
                       ELSE @,
                   !.current_phase = phase],
     current_progress |-> [PhaseProgress(phase) EXCEPT
                              !.started_at = TRUE, !.items_total = total_items]]

\* StateManager.update_progress; the percentage in whole percent
update_progress(sm, items_completed) ==
    IF sm.current_progress # NoProgress
    THEN [sm EXCEPT
             !.current_progress.items_completed = items_completed,
             !.current_progress.progress_percent =
                 IF sm.current_progress.items_total > 0
                 THEN (items_completed * 100) \div sm.current_progress.items_total
                 ELSE @]
    ELSE sm

\* StateManager.complete_phase
complete_phase(sm) ==
    IF sm.current_progress # NoProgress
    THEN [state |-> [sm.state EXCEPT
                        !.phase_history =
                            Append(@, [sm.current_progress EXCEPT
                                          !.completed_at = TRUE,
                                          !.progress_percent = 100])],
          current_progress |-> NoProgress]
    ELSE sm

\* StateManager.set_error
set_error(sm, error_message) ==
    [state |-> [sm.state EXCEPT
                   !.error = error_message,
                   !.current_phase = "ERROR",
                   !.phase_history =
                       IF sm.current_progress # NoProgress
                       THEN Append(@, [sm.current_progress EXCEPT
                                          !.error_message = error_message,
                                          !.completed_at = TRUE])
                       ELSE @],
     current_progress |-> NoProgress]

\* the documents, each named by its path; its content hash is its number
Docs == 1..MaxDocs

----------------------------------------------------------------------------
(* States in which a component has not been used *)

NoSummary == <<>>
NoParameters == <<>>

ParamIdle ==
    /\ gpc = "idle"
    /\ lastAttempt = 0
    /\ lastParams = NoParameters

TolIdle ==
    /\ tolerance = DefaultTolerance
    /\ tExpected = Coordinates(0, 0, 0, 0)
    /\ tMeasured = Coordinates(0, 0, 0, 0)
    /\ tResult = NoResult

ValIdle ==
    /\ fields = <<>>
    /\ initFields = <<>>
    /\ vpc = "idle"
    /\ idx = 0
    /\ validated_fields = <<>>
    /\ passed_count = 0
    /\ batch_size = DefaultBatchSize
    /\ progress_reports = <<>>
    /\ skipped_count = 0
    /\ max_retries_used = 0
    /\ summary = NoSummary
    /\ callParams = NoParameters
    /\ calls = <<>>
    /\ rounds = 0

\* FieldDetector.__init__ under the default configuration
DetDefault ==
    /\ max_concurrent_requests = DefaultMaxConcurrentRequests
    /\ semaphore = max_concurrent_requests

DetIdle ==
    /\ page_count = 0
    /\ dpc = "idle"
    /\ task = <<>>
    /\ taskResult = <<>>
    /\ completion = <<>>
    /\ results_by_page = <<>>
    /\ insertion = <<>>
    /\ completed_pages = 0
    /\ all_fields = <<>>

EngineDefault ==
    /\ max_attempts = DefaultMaxRetries
    /\ parameters = post_init(EmptyTable)
    /\ retry_pool = <<>>

\* DiscoveryWorkflow.__init__ with empty checkpoint, cache and output folders
WfFresh ==
    /\ state = NoState
    /\ current_progress = NoProgress
    /\ frame = "none"
    /\ plan = <<>>
    /\ outcome = NoOutcome
    /\ resume_id = 0
    /\ next_id = 1
    /\ restart_phase = "none"
    /\ checkpoints = <<>>
    /\ entries = <<>>
    /\ sidecar = <<>>
    /\ outputs = <<>>
    /\ cp_result = NoOutcome
    /\ cache_result = NoOutcome
    /\ last_stored = <<>>
    /\ phases_started = <<>>
    /\ api_calls = 0
    /\ save_attempts = 0
    /\ cache_lookup = "none"
    /\ log = <<>>

\* orchestrators that share one cache directory
Instances == {"A", "B"}
NoFile == <<>>
\* an orchestrator that has not been constructed yet
NotBuilt == [built |-> FALSE, entries |-> <<>>]

\* no index file yet, no orchestrator constructed
SharedIdle ==
    /\ index_file = NoFile
    /\ instances = [o \in Instances |-> NotBuilt]

WfIdle ==
    /\ cache_enabled = TRUE
    /\ doc_readable = [d \in Docs |-> TRUE]
    /\ SharedIdle
    /\ WfFresh

----------------------------------------------------------------------------
(* The tolerance checker on its own *)

InitTolerance ==
    /\ tolerance \in 0..MaxTolerance
    /\ tExpected \in Boxes
    /\ tMeasured \in Boxes
    /\ tResult = NoResult
    /\ EngineDefault /\ ParamIdle /\ ValIdle /\ DetDefault /\ DetIdle /\ WfIdle

NextTolerance ==
    \/ Check
    \/ \E t \in 0..MaxTolerance : SetTolerance(t)

SpecTolerance == InitTolerance /\ [][NextTolerance]_vars

----------------------------------------------------------------------------
(* The retry engine's escalation table on its own *)

\* the tables a configuration may hold: the entries of some attempts of the default table
Tables ==
    {[a \in D |-> default_retry_parameters[a]] :
        D \in (SUBSET (1..DefaultMaxRetries)) \ {{}}}

MaxRetriesValues == 1..(DefaultMaxRetries + MaxExtraAttempts)

InitParams ==
    /\ max_attempts \in MaxRetriesValues
    /\ \E given \in Tables \cup {EmptyTable} : parameters = post_init(given)
    /\ retry_pool = <<>>
    /\ ParamIdle /\ TolIdle /\ ValIdle /\ DetDefault /\ DetIdle /\ WfIdle

NextParams ==
    \E a \in 1..(DefaultMaxRetries + MaxExtraAttempts + 1) : GetParameters(a)

SpecParams == InitParams /\ [][NextParams]_vars

----------------------------------------------------------------------------
(* vision/glm_provider.py: the measurement collaborator *)

\* the tolerance validate_coordinates compares against
ProviderTolerance == 5
\* float('inf'), the difference reported for a field that does not exist
Infinity == 1000000

\* the box every detected field of the validation model has
FieldBox == Coordinates(1000, 2000, 1500, 250)

\* what _parse_validation_response can hand back: the field found with its x
\* measured 0.5 or 0.6 off, or the field not found
Responses ==
    {[exists |-> TRUE, measured |-> [FieldBox EXCEPT !.x = @ + d]] : d \in {5, 6}}
    \cup {[exists |-> FALSE, measured |-> Coordinates(0, 0, 0, 0)]}

\* GLMVisionProvider.validate_coordinates, after _call_api returned a response:
\* the tuple (passed, measured, difference)
validate_coordinates(field, response) ==
    IF ~response.exists
    THEN <<FALSE, response.measured, Infinity>>
    ELSE LET max_difference == max(Differences(field.coordinates, response.measured))
         IN  <<max_difference <= ProviderTolerance, response.measured, max_difference>>

----------------------------------------------------------------------------
(* validation/coordinator.py *)

NoEvidence == <<>>

\* a DetectedField as the detector builds it
FreshField(page) ==
    [page_number |-> page, coordinates |-> FieldBox,
     validation_status |-> "pending", retry_count |-> 0,
     validation_evidence |-> NoEvidence]

\* RetryEngine.add_to_retry_pool (retry_engine.py): the field list and the pool after it
add_to_retry_pool(fs, pool, i) ==
    [fields |-> [fs EXCEPT ![i].validation_status = "skipped"],
     retry_pool |-> Append(pool, i)]

\* ValidationSummary built at the end of validate_all_fields
Summary(fs, passed, skipped, pool, maxUsed) ==
    [total_fields |-> Len(fs), passed |-> passed, skipped |-> skipped,
     accuracy |-> IF Len(fs) > 0 THEN (passed * 100) \div Len(fs) ELSE 0,
     retry_pool_count |-> Len(pool), max_retries_used |-> maxUsed]

\* the ValidationProgress handed to progress_callback after the field at
\* position validated (1-based) was processed
ValidationProgress(total, validated, passed, skipped) ==
    [total_fields |-> total, validated |-> validated, passed |-> passed,
     failed |-> validated - passed - skipped, skipped |-> skipped,
     current_accuracy |-> IF validated - 1 > 0
                          THEN (passed * 100) \div validated ELSE 0]

\* validate_all_fields is called on the list (again, once it has returned);
\* the workflow runs its phases one after the other, so never while
\* detect_all_pages is running
ValidateAllFields ==
    /\ vpc \in {"idle", "returned"}
    /\ dpc \in {"idle", "returned"}
    /\ rounds < MaxRounds
    /\ rounds' = rounds + 1
    /\ validated_fields' = <<>>
    /\ passed_count' = 0
    /\ progress_reports' = <<>>
    /\ batch_size' = batch_size
    /\ skipped_count' = 0
    /\ max_retries_used' = 0
    /\ idx' = 1
    /\ IF Len(fields) = 0
       THEN /\ summary' = Summary(fields, 0, 0, retry_pool, 0)
            /\ vpc' = "returned"
       ELSE /\ summary' = NoSummary
            /\ vpc' = "loop"
    /\ UNCHANGED <<fields, initFields, callParams, calls>>
    /\ UNCHANGED <<engineVars, paramVars, tolVars, detVars>>
    /\ UNCHANGED wfVars

\* the rest of the loop body once _validate_field_with_retry returned for
\* field idx (fs is the list with that field's final state), and the return
\* of validate_all_fields after the last field
AfterField(fs) ==
    LET f == fs[idx]
        isPassed == f.validation_status = "passed"
        isSkipped == f.validation_status = "skipped"
        pooled == IF isSkipped /\ ~isPassed
                  THEN add_to_retry_pool(fs, retry_pool, idx)
                  ELSE [fields |-> fs, retry_pool |-> retry_pool]
        passed2 == IF isPassed THEN passed_count + 1 ELSE passed_count
        skipped2 == IF isSkipped /\ ~isPassed THEN skipped_count + 1 ELSE skipped_count
        used2 == max({max_retries_used, f.retry_count})
    IN  /\ fields' = pooled.fields
        /\ retry_pool' = pooled.retry_pool
        /\ validated_fields' = Append(validated_fields, idx)
        /\ passed_count' = passed2
        /\ batch_size' = batch_size
        /\ progress_reports' =
               IF idx % batch_size = 0
               THEN Append(progress_reports,
                           ValidationProgress(Len(fs), idx, passed2, skipped2))
               ELSE progress_reports
        /\ skipped_count' = skipped2
        /\ max_retries_used' = used2
        /\ idx' = idx + 1
        /\ IF idx = Len(fs)
           THEN /\ summary' = Summary(pooled.fields, passed2, skipped2,
                                      pooled.retry_pool, used2)
                /\ vpc' = "returned"
           ELSE /\ summary' = summary
                /\ vpc' = "loop"

\* _validate_field_with_retry: should_retry holds, the measurement call is issued
IssueMeasurement ==
    /\ vpc = "loop"
    /\ idx <= Len(fields)
    /\ should_retry(fields[idx])
    /\ callParams' = get_parameters_for_attempt(fields[idx].retry_count + 1)
    /\ vpc' = "await"
    /\ UNCHANGED <<fields, initFields, idx, validated_fields, passed_count, batch_size, progress_reports,
                   skipped_count, max_retries_used, summary, calls, rounds>>
    /\ UNCHANGED <<engineVars, paramVars, tolVars, detVars>>
    /\ UNCHANGED wfVars

record_measurement_on_failure(field, attempt_num, result) ==
    [field EXCEPT !.retry_count = IF result[1] THEN @ ELSE attempt_num,
                  !.validation_evidence =
                      [attempt |-> attempt_num, measured |-> result[2],
                       difference |-> result[3]]]

\* _validate_field_with_retry, the assignments after the call returned:
\* retry_count and validation_evidence
record_measurement(field, attempt_num, result) ==
    [field EXCEPT !.retry_count = attempt_num,
                  !.validation_evidence =
                      [attempt |-> attempt_num, measured |-> result[2],
                       difference |-> result[3]]]

\* the measurement call returns a response
MeasurementReturns(response) ==
    /\ vpc = "await"
    /\ LET field == fields[idx]
           attempt_num == field.retry_count + 1
           result == validate_coordinates(field, response)
           measuredField == record_measurement(field, attempt_num, result)
       IN  /\ calls' = [calls EXCEPT ![idx] =
                           Append(@, [attempt |-> attempt_num, parameters |-> callParams,
                                      result |-> IF result[1] THEN "pass" ELSE "fail"])]
           /\ IF result[1]
              THEN AfterField([fields EXCEPT
                                  ![idx] = [measuredField EXCEPT
                                               !.validation_status = "passed"]])
              ELSE /\ fields' = [fields EXCEPT ![idx] = measuredField]
                   /\ vpc' = "loop"
                   /\ UNCHANGED <<idx, validated_fields, passed_count, batch_size, progress_reports, skipped_count,
                                  max_retries_used, summary, retry_pool>>
    /\ callParams' = NoParameters
    /\ UNCHANGED <<initFields, rounds, max_attempts, parameters>>
    /\ UNCHANGED <<paramVars, tolVars, detVars>>
    /\ UNCHANGED wfVars

\* the measurement call fails (_call_api raises VisionAPIError: a timeout, a
\* non-200 status, a transport error); nothing between the provider and the
\* caller of validate_all_fields catches it
MeasurementFails ==
    /\ vpc = "await"
    /\ calls' = [calls EXCEPT ![idx] =
                    Append(@, [attempt |-> fields[idx].retry_count + 1,
                               parameters |-> callParams, result |-> "error"])]
    /\ callParams' = NoParameters
    /\ vpc' = "raised"
    /\ UNCHANGED <<fields, initFields, idx, validated_fields, passed_count, batch_size, progress_reports,
                   skipped_count, max_retries_used, summary, rounds>>
    /\ UNCHANGED <<engineVars, paramVars, tolVars, detVars>>
    /\ UNCHANGED wfVars

\* _validate_field_with_retry: should_retry does not hold (any more)
LeaveRetryLoop ==
    /\ vpc = "loop"
    /\ idx <= Len(fields)
    /\ ~should_retry(fields[idx])
    /\ AfterField(IF fields[idx].validation_status # "passed"
                  THEN [fields EXCEPT ![idx].validation_status = "skipped"]
                  ELSE fields)
    /\ UNCHANGED <<initFields, callParams, calls, rounds, max_attempts, parameters>>
    /\ UNCHANGED <<paramVars, tolVars, detVars>>
    /\ UNCHANGED wfVars

\* measurement calls issued and not yet returned
OutstandingMeasurements == IF vpc = "await" THEN 1 ELSE 0

----------------------------------------------------------------------------
(* The validation coordinator as the workflow wires it *)

\* a field in any state with retry_count <= max_attempts
AnyField(page, m) ==
    {[FreshField(page) EXCEPT !.validation_status = st, !.retry_count = rc] :
        st \in ValidationStatus, rc \in 0..m}

FieldLists(m) ==
    UNION {{fs \in [1..n -> UNION {AnyField(p, m) : p \in 1..n}] :
               \A i \in 1..n : fs[i].page_number = i} : n \in 0..MaxFields}

FreshLists == {[i \in 1..n |-> FreshField(i)] : n \in 0..MaxFields}

InitValidation ==
    /\ max_attempts \in (1..MaxSmallRetries)
                        \cup (DefaultMaxRetries..(DefaultMaxRetries + MaxExtraAttempts))
    /\ parameters = post_init(EmptyTable)
    /\ retry_pool = <<>>
    /\ fields \in IF max_attempts <= MaxSmallRetries
                  THEN FieldLists(max_attempts) ELSE FreshLists
    /\ initFields = fields
    /\ vpc = "idle"
    /\ idx = 0
    /\ validated_fields = <<>>
    /\ passed_count = 0
    /\ batch_size = DefaultBatchSize
    /\ progress_reports = <<>>
    /\ skipped_count = 0
    /\ max_retries_used = 0
    /\ summary = NoSummary
    /\ callParams = NoParameters
    /\ calls = [i \in 1..Len(fields) |-> <<>>]
    /\ rounds = 0
    /\ max_concurrent_requests \in 1..MaxConcurrent
    /\ semaphore = max_concurrent_requests
    /\ ParamIdle /\ TolIdle /\ DetIdle /\ WfIdle

NextValidation ==
    \/ ValidateAllFields
    \/ IssueMeasurement
    \/ \E response \in Responses : MeasurementReturns(response)
    \/ MeasurementFails
    \/ LeaveRetryLoop

SpecValidation == InitValidation /\ [][NextValidation]_vars

----------------------------------------------------------------------------
(* The coordinator together with a caller that also uses the retry engine's
   public operations on the fields of the list *)

\* RetryEngine.add_to_retry_pool called on field i of the list
ClientAddToRetryPool(i) ==
    /\ vpc \in {"idle", "returned", "raised"}
    /\ Len(retry_pool) < MaxPool
    /\ LET pooled == add_to_retry_pool(fields, retry_pool, i)
       IN  /\ fields' = pooled.fields
           /\ retry_pool' = pooled.retry_pool
    /\ UNCHANGED <<initFields, vpc, idx, validated_fields, passed_count, batch_size, progress_reports, skipped_count,
                   max_retries_used, summary, callParams, calls, rounds>>
    /\ UNCHANGED <<max_attempts, parameters, paramVars, tolVars, detVars>>
    /\ UNCHANGED wfVars

\* RetryEngine.clear_retry_pool
ClientClearRetryPool ==
    /\ vpc \in {"idle", "returned", "raised"}
    /\ retry_pool # <<>>
    /\ retry_pool' = <<>>
    /\ UNCHANGED <<max_attempts, parameters, paramVars, tolVars, valVars, detVars>>
    /\ UNCHANGED wfVars

InitEngine ==
    /\ max_attempts \in 1..MaxSmallRetries
    /\ parameters = post_init(EmptyTable)
    /\ retry_pool = <<>>
    /\ fields \in FreshLists
    /\ initFields = fields
    /\ vpc = "idle"
    /\ idx = 0
    /\ validated_fields = <<>>
    /\ passed_count = 0
    /\ batch_size = DefaultBatchSize
    /\ progress_reports = <<>>
    /\ skipped_count = 0
    /\ max_retries_used = 0
    /\ summary = NoSummary
    /\ callParams = NoParameters
    /\ calls = [i \in 1..Len(fields) |-> <<>>]
    /\ rounds = 0
    /\ ParamIdle /\ TolIdle /\ DetDefault /\ DetIdle /\ WfIdle

NextEngine ==
    \/ ValidateAllFields
    \/ IssueMeasurement
    \/ \E response \in Responses : MeasurementReturns(response)
    \/ MeasurementFails
    \/ LeaveRetryLoop
    \/ \E i \in 1..Len(fields) : ClientAddToRetryPool(i)
    \/ ClientClearRetryPool

SpecEngine == InitEngine /\ [][NextEngine]_vars

----------------------------------------------------------------------------
(* vision/detector.py *)

\* what detect_fields can return for a page: the fields in the order the
\* detector reported them, each with the page number it was asked for
DetectorResults(p) ==
    {[k \in 1..Len(ids) |-> [page_number |-> p, field_id |-> ids[k]]] :
        ids \in {<<>>, <<"a">>, <<"b", "a">>}}

Pages == 1..page_count

\* the pages whose task exists
Tasks == DOMAIN task

Inflight == {p \in Tasks : task[p] = "inflight"}

\* detection calls issued and not yet returned
OutstandingDetections == Cardinality(Inflight)

\* sorted(keys): the pages of a set in ascending order
RECURSIVE sorted(_)
sorted(S) ==
    IF S = {} THEN <<>>
    ELSE LET least == CHOOSE p \in S : \A q \in S : p <= q
         IN  <<least>> \o sorted(S \ {least})

\* the fields of the pages of a sequence, page after page
RECURSIVE extend_all(_, _)
extend_all(order, results) ==
    IF order = <<>> THEN <<>>
    ELSE results[Head(order)] \o extend_all(Tail(order), results)

assemble_in_insertion_order(results, keyOrder) == extend_all(keyOrder, results)

\* detect_all_pages, the loop over sorted(results_by_page.keys()) that builds
\* all_fields (keyOrder is the dict's own key order, which the loop does not use)
assemble(results, keyOrder) == extend_all(sorted(DOMAIN results), results)

\* detect_all_pages is called: one coroutine per page, all handed to as_completed
DetectAllPages ==
    /\ dpc = "idle"
    /\ vpc = "idle"
    /\ completed_pages' = 0
    /\ task' = [p \in Pages |-> "waiting"]
    /\ taskResult' = [p \in Pages |-> <<>>]
    /\ completion' = <<>>
    /\ results_by_page' = <<>>
    /\ insertion' = <<>>
    /\ IF page_count = 0
       THEN /\ all_fields' = assemble(<<>>, <<>>)
            /\ dpc' = "returned"
       ELSE /\ all_fields' = <<>>
            /\ dpc' = "gather"
    /\ UNCHANGED <<max_concurrent_requests, semaphore, page_count>>
    /\ UNCHANGED <<engineVars, paramVars, tolVars, valVars>>
    /\ UNCHANGED wfVars

TaskAcquire_unbounded(p) ==
    /\ dpc \in {"gather", "raised"}
    /\ task[p] = "waiting"
    /\ task' = [task EXCEPT ![p] = "inflight"]
    /\ semaphore' = semaphore - 1
    /\ UNCHANGED <<max_concurrent_requests, page_count, dpc, taskResult, completion,
                   results_by_page, insertion, completed_pages, all_fields>>
    /\ UNCHANGED <<engineVars, paramVars, tolVars, valVars>>
    /\ UNCHANGED wfVars

\* _detect_page_with_semaphore: the task of page p enters the semaphore and
\* issues its detect_fields call
TaskAcquire(p) ==
    /\ dpc \in {"gather", "raised"}
    /\ task[p] = "waiting"
    /\ semaphore > 0
    /\ task' = [task EXCEPT ![p] = "inflight"]
    /\ semaphore' = semaphore - 1
    /\ UNCHANGED <<max_concurrent_requests, page_count, dpc, taskResult, completion,
                   results_by_page, insertion, completed_pages, all_fields>>
    /\ UNCHANGED <<engineVars, paramVars, tolVars, valVars>>
    /\ UNCHANGED wfVars

\* the detect_fields call of page p returns; the task leaves the semaphore and completes
DetectionReturns(p, detected) ==
    /\ task[p] = "inflight"
    /\ task' = [task EXCEPT ![p] = "done"]
    /\ taskResult' = [taskResult EXCEPT ![p] = detected]
    /\ semaphore' = semaphore + 1
    /\ completion' = Append(completion, p)
    /\ UNCHANGED <<max_concurrent_requests, page_count, dpc, results_by_page,
                   insertion, completed_pages, all_fields>>
    /\ UNCHANGED <<engineVars, paramVars, tolVars, valVars>>
    /\ UNCHANGED wfVars

\* the detect_fields call of page p raises; the task leaves the semaphore and
\* completes with the exception
DetectionFails(p) ==
    /\ task[p] = "inflight"
    /\ task' = [task EXCEPT ![p] = "failed"]
    /\ semaphore' = semaphore + 1
    /\ completion' = Append(completion, p)
    /\ UNCHANGED <<max_concurrent_requests, page_count, dpc, taskResult,
                   results_by_page, insertion, completed_pages, all_fields>>
    /\ UNCHANGED <<engineVars, paramVars, tolVars, valVars>>
    /\ UNCHANGED wfVars

\* detect_all_pages resumes with the next completed task: the body of the
\* as_completed loop and, after the last page, the assembly and the return;
\* a task that failed raises out of detect_all_pages
Collect ==
    /\ dpc = "gather"
    /\ completion # <<>>
    /\ LET p == Head(completion)
       IN  /\ completion' = Tail(completion)
           /\ IF task[p] = "failed"
              THEN /\ dpc' = "raised"
                   /\ UNCHANGED <<task, results_by_page, insertion, completed_pages,
                                  all_fields>>
              ELSE LET results == [q \in (DOMAIN results_by_page) \cup {p} |->
                                      IF q = p THEN taskResult[p] ELSE results_by_page[q]]
                       keyOrder == Append(insertion, p)
                   IN  /\ task' = [task EXCEPT ![p] = "collected"]
                       /\ results_by_page' = results
                       /\ insertion' = keyOrder
                       /\ completed_pages' = completed_pages + 1
                       /\ IF completed_pages + 1 = page_count
                          THEN /\ all_fields' = assemble(results, keyOrder)
                               /\ dpc' = "returned"
                          ELSE /\ all_fields' = all_fields
                               /\ dpc' = dpc
    /\ UNCHANGED <<max_concurrent_requests, semaphore, page_count, taskResult>>
    /\ UNCHANGED <<engineVars, paramVars, tolVars, valVars>>
    /\ UNCHANGED wfVars

InitDetect ==
    /\ max_concurrent_requests \in 1..MaxConcurrent
    /\ semaphore = max_concurrent_requests
    /\ page_count \in 0..MaxPages
    /\ dpc = "idle"
    /\ task = <<>>
    /\ taskResult = <<>>
    /\ completion = <<>>
    /\ results_by_page = <<>>
    /\ insertion = <<>>
    /\ completed_pages = 0
    /\ all_fields = <<>>
    /\ EngineDefault /\ ParamIdle /\ TolIdle /\ ValIdle /\ WfIdle

NextDetect ==
    \/ DetectAllPages
    \/ \E p \in Tasks : TaskAcquire(p)
    \/ \E p \in Tasks : \E detected \in DetectorResults(p) : DetectionReturns(p, detected)
    \/ \E p \in Tasks : DetectionFails(p)
    \/ Collect

SpecDetect == InitDetect /\ [][NextDetect]_vars

----------------------------------------------------------------------------
(* The two phases that call the recognition service: a detection phase, or a
   validation phase on a list of fields *)

InitPhases == InitDetect \/ InitValidation

NextPhases == NextDetect \/ NextValidation

SpecPhases == InitPhases /\ [][NextPhases]_vars

----------------------------------------------------------------------------
(* Properties of the validation coordinator *)

InPool(i) == \E j \in 1..Len(retry_pool) : retry_pool[j] = i

\* the results of the measurement calls made for field i, in order
Results(i) == [j \in 1..Len(calls[i]) |-> calls[i][j].result]

\* C1: after validate_all_fields returns, every field of the list has
\* retry_count <= max_attempts and is passed or skipped; none is left pending
C1_NoFieldLeftPending ==
    vpc = "returned" =>
        \A i \in 1..Len(fields) :
            /\ fields[i].retry_count <= max_attempts
            /\ fields[i].validation_status \in {"passed", "skipped"}

C1_Witness ==
    /\ vpc = "returned"
    /\ Len(fields) = 2
    /\ fields[1].validation_status = "skipped"
    /\ fields[1].retry_count = max_attempts
    /\ Len(calls[1]) = max_attempts
    /\ fields[2].validation_status = "passed"
    /\ Len(calls[2]) > 1

\* C2: a pending field with retry_count 0 whose measurement fails tolerance on
\* attempts 1..k-1 and passes on attempt k ends passed with retry_count = k,
\* measured exactly k times, with the parameters of attempts 1..k in order
C2_PassAtAttemptK ==
    \A i \in 1..Len(fields) :
        \A k \in 1..Len(calls[i]) :
            ( /\ initFields[i].validation_status = "pending"
              /\ initFields[i].retry_count = 0
              /\ calls[i][k].result = "pass"
              /\ \A j \in 1..(k - 1) : calls[i][j].result = "fail" )
            => /\ k <= max_attempts
               /\ Len(calls[i]) = k
               /\ fields[i].validation_status = "passed"
               /\ fields[i].retry_count = k
               /\ \A j \in 1..k :
                      /\ calls[i][j].attempt = j
                      /\ calls[i][j].parameters = get_parameters_for_attempt(j)

\* the scenario of the specification: one field passes at attempt 1, the
\* other fails attempts 1..6 and passes at attempt 7
C2_Witness ==
    /\ vpc = "returned"
    /\ max_attempts = DefaultMaxRetries
    /\ Len(fields) = 2
    /\ Results(1) = <<"pass">>
    /\ fields[1].retry_count = 1
    /\ Results(2) = <<"fail", "fail", "fail", "fail", "fail", "fail", "pass">>
    /\ fields[2].retry_count = DefaultMaxRetries
    /\ fields[2].validation_status = "passed"

\* C3: when the measurement call of an attempt fails, the attempt counts as a
\* failed one: retry_count is incremented to the attempt's number, the field
\* is not passed, and the error does not leave the coordinator
C3_CallFailureIsFailedAttempt ==
    \A i \in 1..Len(fields) :
        (Len(calls[i]) > 0 /\ calls[i][Len(calls[i])].result = "error")
        => /\ fields[i].retry_count = calls[i][Len(calls[i])].attempt
           /\ fields[i].validation_status # "passed"
           /\ vpc # "raised"

\* field i was pending, has used up its attempts without passing, and the
\* coordinator is done with it
Exhausted(i) ==
    /\ initFields[i].validation_status = "pending"
    /\ initFields[i].retry_count + Len(calls[i]) >= max_attempts
    /\ \A j \in 1..Len(calls[i]) : calls[i][j].result # "pass"
    /\ \/ idx > i
       \/ vpc \in {"returned", "raised"}

\* C4: a field that passes on none of its max_attempts attempts (the last
\* call failing outright included) ends skipped and in the retry pool, gets
\* no further measurement call, and validate_all_fields is not aborted
C4_ExhaustedFieldIsPooled ==
    \A i \in 1..Len(fields) :
        Exhausted(i)
        => /\ fields[i].validation_status = "skipped"
           /\ InPool(i)
           /\ initFields[i].retry_count + Len(calls[i]) = max_attempts
           /\ ~(vpc = "raised" /\ idx = i)

\* C5: under any sequence of coordinator and retry-engine operations a
\* field's validation_status only changes pending -> passed or
\* pending -> skipped; a passed or skipped field never changes status again
C5_StatusMonotone ==
    [][\A i \in 1..Len(fields) :
           fields'[i].validation_status # fields[i].validation_status
               => fields[i].validation_status = "pending"]_vars

----------------------------------------------------------------------------
(* Properties of the tolerance checker *)

Components == {"x", "y", "width", "height"}

\* the signed difference of one component
Delta(c) ==
    CASE c = "x" -> tExpected.x - tMeasured.x
      [] c = "y" -> tExpected.y - tMeasured.y
      [] c = "width" -> tExpected.width - tMeasured.width
      [] c = "height" -> tExpected.height - tMeasured.height

----------------------------------------------------------------------------
(* Properties of the escalation table *)

\* C7: in the default escalation table the confidence threshold never rises
\* and the sensitivity never falls from one attempt to the next; the
\* threshold is 0.95 at attempt 1 and 0.65 at attempt 7
C7_EscalationMonotone ==
    parameters = post_init(EmptyTable) =>
        /\ DOMAIN parameters = 1..DefaultMaxRetries
        /\ \A a \in 1..(DefaultMaxRetries - 1) :
              /\ parameters[a + 1].confidence_threshold
                     <= parameters[a].confidence_threshold
              /\ SensitivityRank(parameters[a + 1].detection_sensitivity)
                     >= SensitivityRank(parameters[a].detection_sensitivity)
              /\ SensitivityRank(parameters[a].detection_sensitivity) >= 1
        /\ parameters[1].confidence_threshold = 95
        /\ parameters[DefaultMaxRetries].confidence_threshold = 65

C7_Witness ==
    /\ parameters = post_init(EmptyTable)
    /\ gpc = "got"
    /\ lastAttempt = DefaultMaxRetries
    /\ lastParams.confidence_threshold = 65
    /\ lastParams.detection_sensitivity = "maximum"

\* C8: for an attempt number with no entry in the table,
\* get_parameters_for_attempt returns the last (highest-numbered) entry
C8_FallbackIsLastEntry ==
    (gpc = "got" /\ lastAttempt \notin DOMAIN parameters)
        => lastParams = parameters[max(DOMAIN parameters)]

----------------------------------------------------------------------------
(* Properties of the detector and of the concurrency bound *)

\* C9: at every point of a detection or validation phase the number of
\* recognition/measurement calls issued and not yet returned is at most
\* max_concurrent_requests
C9_OutstandingCallsBounded ==
    /\ OutstandingDetections <= max_concurrent_requests
    /\ OutstandingMeasurements <= max_concurrent_requests
    /\ OutstandingDetections + semaphore = max_concurrent_requests

\* the limit is reached while further pages wait for a permit
C9_Witness ==
    /\ max_concurrent_requests = 2
    /\ OutstandingDetections = max_concurrent_requests
    /\ \E p \in Tasks : task[p] = "waiting"

\* the fields of page p in all_fields, in their order there
FieldsOfPage(p) == SelectSeq(all_fields, LAMBDA f : f.page_number = p)

\* C10: whatever the order in which the per-page calls complete,
\* detect_all_pages returns the fields in ascending page order, each page's
\* fields in the order the detector returned them
C10_FieldsInPageOrder ==
    dpc = "returned" =>
        /\ \A i \in 1..Len(all_fields) : \A j \in i..Len(all_fields) :
               all_fields[i].page_number <= all_fields[j].page_number
        /\ \A p \in Pages : FieldsOfPage(p) = taskResult[p]

\* pages 3 and 2 completed before page 1, each with fields
C10_Witness ==
    /\ dpc = "returned"
    /\ page_count = 3
    /\ insertion = <<3, 2, 1>>
    /\ Len(taskResult[1]) = 1
    /\ Len(taskResult[2]) = 2
    /\ Len(taskResult[3]) = 2
    /\ Len(all_fields) = 5

----------------------------------------------------------------------------
(* workflow/checkpoint.py *)

\* what a call gives its caller: a value, or an exception
Returned(value) == [ok |-> TRUE, value |-> value]
Raised(error) == [ok |-> FALSE, error |-> error]

\* a directory as a function from names to contents
Put(dir, name, content) ==
    [n \in (DOMAIN dir) \cup {name} |-> IF n = name THEN content ELSE dir[n]]

Remove(dir, name) == [n \in (DOMAIN dir) \ {name} |-> dir[n]]

\* the results of a comprehension over a sequence: the list of values, or the
\* first exception raised while building it
collect(results) ==
    IF \E i \in 1..Len(results) : ~results[i].ok
    THEN Raised(results[CHOOSE i \in 1..Len(results) :
                            /\ ~results[i].ok
                            /\ \A j \in 1..(i - 1) : results[j].ok].error)
    ELSE Returned([i \in 1..Len(results) |-> results[i].value])

\* DetectedField as the workflow holds it (core/types.py)
DetectedField(page, field_type, status, retries) ==
    [page_number |-> page, field_type |-> field_type, coordinates |-> FieldBox,
     hierarchy |-> {"section", "subsection", "entry", "field_label"},
     validation_status |-> status, retry_count |-> retries]

\* the attributes of the DetectedField dataclass
DetectedFieldAttributes ==
    {"field_id", "field_type", "coordinates", "hierarchy", "page_number",
     "confidence_score", "validation_status", "section_id", "render_order",
     "css_coordinates", "ui_hints", "retry_count", "validation_evidence"}

\* the attributes of the FieldHierarchy dataclass
FieldHierarchyAttributes == {"section", "subsection", "entry", "field_label"}

\* the attributes _serialize_field reads from the field
SerializeFieldReads ==
    {"field_id", "field_type", "coordinates", "hierarchy", "page_number",
     "confidence_score", "validation_status", "css_coordinates", "render_order",
     "tab_index", "label", "placeholder"}

\* the keyword arguments _deserialize_field passes to DetectedField
DeserializeFieldKeywords ==
    {"field_id", "field_type", "coordinates", "hierarchy", "page_number",
     "confidence_score", "validation_status", "css_coordinates", "render_order",
     "tab_index", "label", "placeholder"}

\* the keyword arguments _deserialize_field passes to FieldHierarchy
DeserializeHierarchyKeywords == {"section", "subsection", "entry", "field_name"}

\* _serialize_field: reading an attribute the field does not have raises
serialize_field(field) ==
    IF ~(SerializeFieldReads \subseteq DetectedFieldAttributes)
    THEN Raised("AttributeError")
    ELSE Returned([fieldType |-> field.field_type,
                   hierarchy |-> field.hierarchy,
                   pageNumber |-> field.page_number,
                   validationStatus |-> field.validation_status])

\* FieldType(value) and ValidationStatus(value): the member with that value
FieldTypeOf(value) ==
    IF value \in FieldType THEN Returned(value) ELSE Raised("ValueError")

ValidationStatusOf(value) ==
    IF value \in ValidationStatus THEN Returned(value) ELSE Raised("ValueError")

WorkflowPhaseOf_defaulting(value) ==
    IF \E phase \in WorkflowPhase : PhaseValue(phase) = value
    THEN Returned(CHOOSE phase \in WorkflowPhase : PhaseValue(phase) = value)
    ELSE Returned("INIT")

\* WorkflowPhase(value)
WorkflowPhaseOf(value) ==
    IF \E phase \in WorkflowPhase : PhaseValue(phase) = value
    THEN Returned(CHOOSE phase \in WorkflowPhase : PhaseValue(phase) = value)
    ELSE Raised("ValueError")

\* _deserialize_field, its expressions in evaluation order
deserialize_field(data) ==
    LET field_type == FieldTypeOf(data.fieldType)
        status == ValidationStatusOf(data.validationStatus)
    IN  IF ~field_type.ok THEN field_type
        ELSE IF "field_name" \notin data.hierarchy THEN Raised("KeyError")
        ELSE IF ~(DeserializeHierarchyKeywords \subseteq FieldHierarchyAttributes)
             THEN Raised("TypeError")
        ELSE IF ~status.ok THEN status
        ELSE IF ~(DeserializeFieldKeywords \subseteq DetectedFieldAttributes)
             THEN Raised("TypeError")
        ELSE Returned(DetectedField(data.pageNumber, field_type.value, status.value, 0))

\* _serialize_phase_progress and _deserialize_phase_progress
serialize_phase_progress(progress) ==
    [phase |-> PhaseValue(progress.phase),
     startedAt |-> progress.started_at,
     completedAt |-> progress.completed_at,
     progressPercent |-> progress.progress_percent,
     itemsTotal |-> progress.items_total,
     itemsCompleted |-> progress.items_completed,
     errorMessage |-> progress.error_message]

deserialize_phase_progress(data) ==
    LET phase == WorkflowPhaseOf(data.phase)
    IN  IF ~phase.ok THEN phase
        ELSE Returned([phase |-> phase.value,
                       started_at |-> data.startedAt,
                       completed_at |-> data.completedAt,
                       progress_percent |-> data.progressPercent,
                       items_total |-> data.itemsTotal,
                       items_completed |-> data.itemsCompleted,
                       error_message |-> data.errorMessage])

\* PageInfo, _serialize_page_info and _deserialize_page_info
PageInfo(page_number) == [page_number |-> page_number]

serialize_page_info(page) == [pageNumber |-> page.page_number]

deserialize_page_info(data) == PageInfo(data.pageNumber)

\* _serialize_state
serialize_state(st) ==
    LET detected == collect([i \in 1..Len(st.detected_fields) |->
                                serialize_field(st.detected_fields[i])])
        validated == collect([i \in 1..Len(st.validated_fields) |->
                                 serialize_field(st.validated_fields[i])])
        pool == collect([i \in 1..Len(st.retry_pool) |->
                            serialize_field(st.retry_pool[i])])
    IN  IF ~detected.ok THEN detected
        ELSE IF ~validated.ok THEN validated
        ELSE IF ~pool.ok THEN pool
        ELSE Returned(
            [workflowId |-> st.workflow_id,
             documentPath |-> st.document_path,
             documentHash |-> st.document_hash,
             currentPhase |-> PhaseValue(st.current_phase),
             phaseHistory |-> [i \in 1..Len(st.phase_history) |->
                                  serialize_phase_progress(st.phase_history[i])],
             pages |-> [i \in 1..Len(st.pages) |-> serialize_page_info(st.pages[i])],
             detectedFields |-> detected.value,
             validatedFields |-> validated.value,
             retryPool |-> pool.value,
             outputPaths |-> st.output_paths,
             error |-> st.error])

\* _deserialize_state, its arguments in evaluation order
deserialize_state(data) ==
    LET current_phase == WorkflowPhaseOf(data.currentPhase)
        history == collect([i \in 1..Len(data.phaseHistory) |->
                               deserialize_phase_progress(data.phaseHistory[i])])
        detected == collect([i \in 1..Len(data.detectedFields) |->
                                deserialize_field(data.detectedFields[i])])
        validated == collect([i \in 1..Len(data.validatedFields) |->
                                 deserialize_field(data.validatedFields[i])])
        pool == collect([i \in 1..Len(data.retryPool) |->
                            deserialize_field(data.retryPool[i])])
    IN  IF ~current_phase.ok THEN current_phase
        ELSE IF ~history.ok THEN history
        ELSE IF ~detected.ok THEN detected
        ELSE IF ~validated.ok THEN validated
        ELSE IF ~pool.ok THEN pool
        ELSE Returned(
            [workflow_id |-> data.workflowId,
             document_path |-> data.documentPath,
             document_hash |-> data.documentHash,
             current_phase |-> current_phase.value,
             phase_history |-> history.value,
             pages |-> [i \in 1..Len(data.pages) |-> deserialize_page_info(data.pages[i])],
             detected_fields |-> detected.value,
             validated_fields |-> validated.value,
             retry_pool |-> pool.value,
             output_paths |-> data.outputPaths,
             error |-> data.error])

\* CheckpointManager.save_checkpoint: the folder after the call and what the
\* call gave; any exception while serializing or writing becomes CheckpointError
save_checkpoint(folder, st) ==
    LET data == serialize_state(st)
    IN  IF data.ok
        THEN [folder |-> Put(folder, st.workflow_id, data.value),
              result |-> Returned(st.workflow_id)]
        ELSE [folder |-> folder, result |-> Raised("CheckpointError")]

\* CheckpointManager.load_checkpoint: None if there is no file, the state, or
\* CheckpointError for any exception while reading
load_checkpoint(folder, workflow_id) ==
    IF workflow_id \notin DOMAIN folder
    THEN Returned(NoState)
    ELSE LET st == deserialize_state(folder[workflow_id])
         IN  IF st.ok THEN st ELSE Raised("CheckpointError")

\* CheckpointManager.delete_checkpoint
delete_checkpoint(folder, workflow_id) ==
    IF workflow_id \in DOMAIN folder THEN Remove(folder, workflow_id) ELSE folder

----------------------------------------------------------------------------
(* The checkpoint manager on its own: a state is saved, the file is read
   back, deleted, or edited by hand *)

coreVars == <<engineVars, paramVars, tolVars, valVars, detVars>>
\* the cache directory as other orchestrators see and use it
sharedVars == <<index_file, instances>>
\* what one orchestrator is configured with and finds around it
cfgVars == <<cache_enabled, doc_readable, sharedVars>>
callVars == <<state, current_progress, frame, plan, outcome, resume_id, next_id,
              restart_phase>>
obsVars == <<phases_started, api_calls, save_attempts, cache_lookup, log>>

\* the fields a saved state may hold
StateFieldSamples ==
    {DetectedField(1, "text-input", "pending", 0),
     DetectedField(1, "checkbox", "passed", 1),
     DetectedField(1, "signature", "skipped", DefaultMaxRetries)}

SeqsUpTo(S, n) == UNION {[1..k -> S] : k \in 0..n}

\* the states handed to save_checkpoint: every phase, with and without
\* history, fields, output paths and error
StateSamples ==
    {[WorkflowState(1, 1) EXCEPT
         !.document_hash = 1,
         !.current_phase = phase,
         !.phase_history = history,
         !.pages = <<PageInfo(1)>>,
         !.detected_fields = detected,
         !.validated_fields = SelectSeq(detected, LAMBDA f : f.validation_status = "passed"),
         !.retry_pool = SelectSeq(detected, LAMBDA f : f.validation_status = "skipped"),
         !.output_paths = paths,
         !.error = error] :
        phase \in WorkflowPhase,
        history \in {<<>>,
                     <<[PhaseProgress("LOADING") EXCEPT !.progress_percent = 100]>>,
                     <<[PhaseProgress("LOADING") EXCEPT !.progress_percent = 100],
                       [PhaseProgress("DETECTION") EXCEPT !.error_message = "VisionAPIError"]>>},
        detected \in SeqsUpTo(StateFieldSamples, MaxStateFields),
        paths \in {{}, {"golden_map"}},
        error \in {NoError, "VisionAPIError"}}

\* a field entry as a hand-edited checkpoint file may hold it: the keys the
\* serializer writes or the keys the deserializer reads, known or unknown
\* enumeration strings
FieldEntrySamples ==
    [fieldType : {"text-input", "bogus"},
     hierarchy : {FieldHierarchyAttributes, DeserializeHierarchyKeywords},
     pageNumber : {1},
     validationStatus : {"pending", "bogus"}]

\* the edits of a checkpoint file
Edits(data) ==
    {[data EXCEPT !.currentPhase = "bogus"]}
    \cup {[data EXCEPT !.phaseHistory[i].phase = "bogus"] : i \in 1..Len(data.phaseHistory)}
    \cup {[data EXCEPT !.detectedFields = Append(@, entry)] : entry \in FieldEntrySamples}
    \cup {[data EXCEPT !.retryPool = Append(@, entry)] : entry \in FieldEntrySamples}

\* save_checkpoint is called on the state
SaveCheckpoint ==
    /\ frame = "none"
    /\ state # NoState
    /\ LET saved == save_checkpoint(checkpoints, state)
       IN  /\ checkpoints' = saved.folder
           /\ cp_result' = [op |-> "save", id |-> state.workflow_id, found |-> FALSE,
                            read |-> <<>>, result |-> saved.result]
    /\ UNCHANGED <<entries, sidecar, outputs, cache_result, last_stored>>
    /\ UNCHANGED <<coreVars, cfgVars, callVars, obsVars>>

\* load_checkpoint is called
LoadCheckpoint(workflow_id) ==
    /\ frame = "none"
    /\ cp_result' = [op |-> "load", id |-> workflow_id,
                     found |-> workflow_id \in DOMAIN checkpoints,
                     read |-> IF workflow_id \in DOMAIN checkpoints
                              THEN checkpoints[workflow_id] ELSE <<>>,
                     result |-> load_checkpoint(checkpoints, workflow_id)]
    /\ UNCHANGED <<checkpoints, entries, sidecar, outputs, cache_result, last_stored>>
    /\ UNCHANGED <<coreVars, cfgVars, callVars, obsVars>>

\* delete_checkpoint is called
DeleteCheckpoint(workflow_id) ==
    /\ frame = "none"
    /\ workflow_id \in DOMAIN checkpoints
    /\ checkpoints' = delete_checkpoint(checkpoints, workflow_id)
    /\ cp_result' = NoOutcome
    /\ UNCHANGED <<entries, sidecar, outputs, cache_result, last_stored>>
    /\ UNCHANGED <<coreVars, cfgVars, callVars, obsVars>>

\* the file the manager wrote is edited outside the program
EditCheckpoint(workflow_id) ==
    /\ frame = "none"
    /\ workflow_id \in DOMAIN checkpoints
    /\ state # NoState
    /\ serialize_state(state).ok
    /\ checkpoints[workflow_id] = serialize_state(state).value
    /\ \E edited \in Edits(checkpoints[workflow_id]) :
           checkpoints' = [checkpoints EXCEPT ![workflow_id] = edited]
    /\ cp_result' = NoOutcome
    /\ UNCHANGED <<entries, sidecar, outputs, cache_result, last_stored>>
    /\ UNCHANGED <<coreVars, cfgVars, callVars, obsVars>>

InitCheckpoint ==
    /\ cache_enabled = TRUE
    /\ doc_readable = [d \in Docs |-> TRUE]
    /\ SharedIdle
    /\ state \in StateSamples
    /\ current_progress = NoProgress
    /\ frame = "none"
    /\ plan = <<>>
    /\ outcome = NoOutcome
    /\ resume_id = 0
    /\ next_id = 1
    /\ restart_phase = "none"
    /\ checkpoints = <<>>
    /\ entries = <<>>
    /\ sidecar = <<>>
    /\ outputs = <<>>
    /\ cp_result = NoOutcome
    /\ cache_result = NoOutcome
    /\ last_stored = <<>>
    /\ phases_started = <<>>
    /\ api_calls = 0
    /\ save_attempts = 0
    /\ cache_lookup = "none"
    /\ log = <<>>
    /\ EngineDefault /\ ParamIdle /\ TolIdle /\ ValIdle /\ DetDefault /\ DetIdle

NextCheckpoint ==
    \/ SaveCheckpoint
    \/ \E workflow_id \in 1..2 : LoadCheckpoint(workflow_id)
    \/ \E workflow_id \in 1..2 : DeleteCheckpoint(workflow_id)
    \/ \E workflow_id \in 1..2 : EditCheckpoint(workflow_id)

SpecCheckpoint == InitCheckpoint /\ [][NextCheckpoint]_vars

----------------------------------------------------------------------------
(* Properties of the checkpoint manager *)

\* C14: load_checkpoint(s.workflow_id) after save_checkpoint(s) returns a state
\* equal to s in phase, history, pages, the three field lists (type, status
\* and retry count of every field), output paths and error
C14_SaveLoadRoundTrip ==
    (cp_result # NoOutcome /\ cp_result.op = "save")
        => /\ cp_result.result.ok
           /\ LET loaded == load_checkpoint(checkpoints, state.workflow_id)
              IN  /\ loaded.ok
                  /\ loaded.value = state

\* an enumeration-typed string of a checkpoint file that is no member's value
HasUnknownEnum(data) ==
    \/ \A phase \in WorkflowPhase : PhaseValue(phase) # data.currentPhase
    \/ \E i \in 1..Len(data.phaseHistory) :
           \A phase \in WorkflowPhase : PhaseValue(phase) # data.phaseHistory[i].phase
    \/ \E list \in {data.detectedFields, data.validatedFields, data.retryPool} :
           \E i \in 1..Len(list) :
               \/ list[i].fieldType \notin FieldType
               \/ list[i].validationStatus \notin ValidationStatus

\* C15: load_checkpoint of a file in which an enumeration-typed value is not
\* a member of its enumeration raises CheckpointError; it never returns a state
C15_UnknownEnumIsCheckpointError ==
    (cp_result # NoOutcome /\ cp_result.op = "load" /\ cp_result.found
         /\ HasUnknownEnum(cp_result.read))
        => cp_result.result = Raised("CheckpointError")

\* a file whose only defect is the unknown current phase was loaded
C15_Witness ==
    /\ cp_result # NoOutcome
    /\ cp_result.op = "load"
    /\ cp_result.found
    /\ cp_result.read.currentPhase = "bogus"
    /\ cp_result.read.detectedFields = <<>>
    /\ cp_result.read.retryPool = <<>>
    /\ cp_result.result = Raised("CheckpointError")

----------------------------------------------------------------------------
(* Properties of the detector under a failing page *)

\* C11: a detection call that fails for one page does not abort
\* detect_all_pages: the page is a failed page, and the call still returns
\* the results of the other pages
C11_FailedPageDoesNotAbort ==
    \A p \in Tasks : task[p] = "failed" => dpc # "raised"

----------------------------------------------------------------------------
(* cache/sidecar.py, cache/index.py *)

NoArtifact == <<>>
NoEntry == <<>>

\* json.dump and json.load: the text of a document, and the value of a text
json_dump(value) == <<"json", value>>

json_load(text) ==
    IF Len(text) = 2 /\ text[1] = "json"
    THEN Returned(text[2])
    ELSE Raised("JSONDecodeError")

\* what a copy that failed part-way leaves behind
TruncatedFile == <<"json-prefix">>

\* the value GoldenMapGenerator.generate dumps (output/golden_map.py)
GoldenMap(document_hash, field_count) ==
    [documentId |-> document_hash, totalFields |-> field_count]

\* the cache id of a store (an opaque handle)
CacheId(document_hash) == <<"cache", document_hash>>

store_golden_map_nocopy(folder, files, document_hash, golden_map_path) ==
    IF golden_map_path \notin DOMAIN files
    THEN [folder |-> folder, result |-> Raised("CacheError")]
    ELSE [folder |-> folder, result |-> Returned(CacheId(document_hash))]

\* SidecarManager.store_golden_map when shutil.copy2 runs to its end: the
\* cache folder after the call and what the call gave
store_golden_map(folder, files, document_hash, golden_map_path) ==
    IF golden_map_path \notin DOMAIN files
    THEN [folder |-> folder, result |-> Raised("CacheError")]
    ELSE [folder |-> Put(folder, document_hash, files[golden_map_path]),
          result |-> Returned(CacheId(document_hash))]

\* SidecarManager.retrieve_golden_map: the parsed artifact, or None
retrieve_golden_map(folder, document_hash) ==
    IF document_hash \notin DOMAIN folder
    THEN NoArtifact
    ELSE LET parsed == json_load(folder[document_hash])
         IN  IF parsed.ok THEN parsed.value ELSE NoArtifact

\* SidecarManager.delete_cached_map: the cache folder after the call
delete_cached_map(folder, document_hash) ==
    IF document_hash \in DOMAIN folder THEN Remove(folder, document_hash) ELSE folder

\* CacheEntry as add_entry builds it
CacheEntry(cache_id, document_hash, field_count) ==
    [cache_id |-> cache_id, document_hash |-> document_hash,
     field_count |-> field_count]

add_entry_keeping(index, cache_id, document_hash, field_count) ==
    IF document_hash \in DOMAIN index
    THEN index
    ELSE Put(index, document_hash, CacheEntry(cache_id, document_hash, field_count))

\* CacheIndex.add_entry: _entries after the assignment
add_entry(index, cache_id, document_hash, field_count) ==
    Put(index, document_hash, CacheEntry(cache_id, document_hash, field_count))

\* CacheIndex.get_entry
get_entry(index, document_hash) ==
    IF document_hash \in DOMAIN index THEN index[document_hash] ELSE NoEntry

----------------------------------------------------------------------------
(* The cache on its own: artifacts are generated, stored, looked up *)

\* a golden map is written to the output folder for document d
GenerateArtifact(d, field_count) ==
    /\ frame = "none"
    /\ outputs' = Put(outputs, d, json_dump(GoldenMap(d, field_count)))
    /\ cache_result' = NoOutcome
    /\ UNCHANGED <<checkpoints, entries, sidecar, cp_result, last_stored>>
    /\ UNCHANGED <<coreVars, cfgVars, callVars, obsVars>>

\* store_golden_map(h, path of d's golden map) returns
StoreGoldenMap(h, d) ==
    /\ frame = "none"
    /\ LET stored == store_golden_map(sidecar, outputs, h, d)
       IN  /\ sidecar' = stored.folder
           /\ last_stored' = IF stored.result.ok
                             THEN Put(last_stored, h, outputs[d])
                             ELSE Remove(last_stored, h)
           /\ cache_result' = [op |-> "store", hash |-> h, result |-> stored.result]
    /\ UNCHANGED <<checkpoints, entries, outputs, cp_result>>
    /\ UNCHANGED <<coreVars, cfgVars, callVars, obsVars>>

\* store_golden_map(h, ...) raises CacheError because the copy failed: the
\* cache file is as it was, or holds the part that was copied
StoreGoldenMapFails(h, d) ==
    /\ frame = "none"
    /\ d \in DOMAIN outputs
    /\ \/ sidecar' = sidecar
       \/ sidecar' = Put(sidecar, h, TruncatedFile)
    /\ last_stored' = Remove(last_stored, h)
    /\ cache_result' = [op |-> "store", hash |-> h, result |-> Raised("CacheError")]
    /\ UNCHANGED <<checkpoints, entries, outputs, cp_result>>
    /\ UNCHANGED <<coreVars, cfgVars, callVars, obsVars>>

\* retrieve_golden_map(h) is called
RetrieveGoldenMap(h) ==
    /\ frame = "none"
    /\ cache_result' = [op |-> "retrieve", hash |-> h,
                        result |-> Returned(retrieve_golden_map(sidecar, h))]
    /\ UNCHANGED <<checkpoints, entries, sidecar, outputs, cp_result, last_stored>>
    /\ UNCHANGED <<coreVars, cfgVars, callVars, obsVars>>

\* add_entry is called once the artifact of h is stored
AddEntry(h) ==
    /\ frame = "none"
    /\ h \in DOMAIN last_stored
    /\ entries' = add_entry(entries, CacheId(h), h, json_load(last_stored[h]).value.totalFields)
    /\ cache_result' = NoOutcome
    /\ UNCHANGED <<checkpoints, sidecar, outputs, cp_result, last_stored>>
    /\ UNCHANGED <<coreVars, cfgVars, callVars, obsVars>>

\* get_entry(h) is called
GetEntry(h) ==
    /\ frame = "none"
    /\ cache_result' = [op |-> "get_entry", hash |-> h,
                        result |-> Returned(get_entry(entries, h))]
    /\ UNCHANGED <<checkpoints, entries, sidecar, outputs, cp_result, last_stored>>
    /\ UNCHANGED <<coreVars, cfgVars, callVars, obsVars>>

InitCache ==
    /\ WfIdle
    /\ EngineDefault /\ ParamIdle /\ TolIdle /\ ValIdle /\ DetDefault /\ DetIdle

NextCache ==
    \/ \E field_count \in 0..1 : GenerateArtifact(1, field_count)
    \/ \E h \in Docs : StoreGoldenMap(h, 1)
    \/ \E h \in Docs : StoreGoldenMapFails(h, 1)
    \/ \E h \in Docs : RetrieveGoldenMap(h)
    \/ \E h \in Docs : AddEntry(h)
    \/ \E h \in Docs : GetEntry(h)

SpecCache == InitCache /\ [][NextCache]_vars

----------------------------------------------------------------------------
(* Properties of the cache *)

\* C19: after store_golden_map(H, artifact), retrieve_golden_map(H) returns
\* the content of the artifact most recently stored under H; get_entry and
\* retrieve_golden_map of a hash that was never stored return None, and no
\* lookup raises
C19_CacheRoundTrip ==
    (cache_result # NoOutcome /\ cache_result.op \in {"retrieve", "get_entry"})
        => /\ cache_result.result.ok
           /\ (cache_result.op = "retrieve" /\ cache_result.hash \in DOMAIN last_stored)
                  => json_dump(cache_result.result.value) = last_stored[cache_result.hash]
           /\ (cache_result.op = "retrieve" /\ cache_result.hash \notin DOMAIN sidecar)
                  => cache_result.result.value = NoArtifact
           /\ (cache_result.op = "get_entry" /\ cache_result.hash \notin DOMAIN entries)
                  => cache_result.result.value = NoEntry

\* the artifact of hash 1 was stored twice with different content and the
\* second content came back, while hash 2 was never stored and missed
C19_Witness ==
    /\ cache_result # NoOutcome
    /\ cache_result.op = "retrieve"
    /\ cache_result.hash = 1
    /\ 1 \in DOMAIN last_stored
    /\ cache_result.result.value = GoldenMap(1, 0)
    /\ 1 \in DOMAIN outputs
    /\ outputs[1] = json_dump(GoldenMap(1, 1))
    /\ 2 \notin DOMAIN sidecar

----------------------------------------------------------------------------
(* workflow/discovery.py: the orchestrator *)

\* StateManager setters
set_document_hash(sm, document_hash) ==
    [sm EXCEPT !.state.document_hash = document_hash]

set_pages(sm, pages) == [sm EXCEPT !.state.pages = pages]

set_detected_fields(sm, detected) == [sm EXCEPT !.state.detected_fields = detected]

set_validated_fields(sm, validated, pool) ==
    [sm EXCEPT !.state.validated_fields = validated, !.state.retry_pool = pool]

add_output_path(sm, output_type) ==
    [sm EXCEPT !.state.output_paths = @ \cup {output_type}]

\* what PDFLoader and the recognition service give for document d: d pages,
\* and d - 1 fields on the first page
PagesOf(d) == [p \in 1..d |-> PageInfo(p)]
FieldsOf(d) == [i \in 1..(d - 1) |-> DetectedField(1, "text-input", "pending", 0)]

\* the steps of run(), and of resume() from a phase
RunPlan ==
    <<"check_cache", "LOADING", "DETECTION", "VALIDATION", "ORGANIZATION", "OUTPUT",
      "cache_results", "COMPLETE">>

ResumePlan_after(current_phase) ==
    CASE current_phase = "DETECTION" ->
             <<"VALIDATION", "ORGANIZATION", "OUTPUT", "finish_resume">>
      [] current_phase = "VALIDATION" -> <<"ORGANIZATION", "OUTPUT", "finish_resume">>
      [] current_phase = "ORGANIZATION" -> <<"OUTPUT", "finish_resume">>
      [] OTHER -> <<"finish_resume">>

ResumePlan(current_phase) ==
    CASE current_phase = "DETECTION" ->
             <<"DETECTION", "VALIDATION", "ORGANIZATION", "OUTPUT", "finish_resume">>
      [] current_phase = "VALIDATION" ->
             <<"VALIDATION", "ORGANIZATION", "OUTPUT", "finish_resume">>
      [] current_phase = "ORGANIZATION" -> <<"ORGANIZATION", "OUTPUT", "finish_resume">>
      [] current_phase = "OUTPUT" -> <<"OUTPUT", "finish_resume">>
      [] OTHER -> <<"finish_resume">>

\* the phase resume() continues from
ResumePhase(st) ==
    IF st.current_phase = "ERROR"
    THEN IF st.phase_history # <<>>
         THEN st.phase_history[Len(st.phase_history)].phase
         ELSE "INIT"
    ELSE st.current_phase

\* what a step of the executing method does: the state manager after it, the
\* exception it raises (or None), the recognition calls it made, the folders
\* after it, and whether the method returns with it
Effect(sm) ==
    [sm |-> sm, error |-> NoError, calls |-> 0, files |-> outputs, folder |-> sidecar,
     index |-> entries, stored |-> last_stored, returns |-> "no",
     golden_map |-> NoArtifact, lookup |-> cache_lookup]

NoHit == <<>>

check_cache_ignoring(enabled, index, folder, document_hash) == NoHit

check_cache_index_only(enabled, index, folder, document_hash) ==
    IF enabled /\ get_entry(index, document_hash) # NoEntry
    THEN [status |-> "cached",
          golden_map |-> retrieve_golden_map(folder, document_hash),
          cache_id |-> get_entry(index, document_hash).cache_id]
    ELSE NoHit

\* _check_cache once the document hash is known
check_cache(enabled, index, folder, document_hash) ==
    IF ~enabled
    THEN NoHit
    ELSE LET cache_entry == get_entry(index, document_hash)
         IN  IF cache_entry = NoEntry
             THEN NoHit
             ELSE LET cached_map == retrieve_golden_map(folder, document_hash)
                  IN  IF cached_map = NoArtifact
                      THEN NoHit
                      ELSE [status |-> "cached", golden_map |-> cached_map,
                            cache_id |-> cache_entry.cache_id]

\* what the two lookups of _check_cache found
lookup_of(index, folder, document_hash) ==
    IF get_entry(index, document_hash) = NoEntry
    THEN "miss"
    ELSE IF retrieve_golden_map(folder, document_hash) = NoArtifact
    THEN "no_artifact"
    ELSE "hit"

\* the call of _check_cache in run()
step_check_cache(sm, readable) ==
    IF ~cache_enabled
    THEN Effect(sm)
    ELSE IF ~readable
    THEN [Effect(sm) EXCEPT !.error = "PDFLoadError"]
    ELSE LET hit == check_cache(cache_enabled, entries, sidecar, sm.state.document_path)
             found == lookup_of(entries, sidecar, sm.state.document_path)
         IN  IF hit = NoHit
             THEN [Effect(sm) EXCEPT !.lookup = found]
             ELSE [Effect(sm) EXCEPT !.returns = "cached", !.golden_map = hit.golden_map,
                                     !.lookup = found]

\* _phase_loading
phase_loading(sm, readable) ==
    LET started == start_phase(sm, "LOADING", 3)
        d == sm.state.document_path
    IN  IF ~readable
        THEN [Effect(started) EXCEPT !.error = "PDFLoadError"]
        ELSE Effect(complete_phase(update_progress(
                 set_pages(update_progress(
                     set_document_hash(update_progress(started, 1), d), 2),
                     PagesOf(d)), 3)))

\* _phase_detection: detect_all_pages returns the fields of the document after
\* one call per page, or raises on its first call
phase_detection(sm, readable, result) ==
    LET started == start_phase(sm, "DETECTION", Len(sm.state.pages))
        d == sm.state.document_path
    IN  IF ~readable
        THEN [Effect(started) EXCEPT !.error = "PDFLoadError"]
        ELSE IF result = "raises"
        THEN [Effect(started) EXCEPT !.error = "VisionAPIError", !.calls = 1]
        ELSE [Effect(complete_phase(set_detected_fields(update_progress(started, d),
                                                        FieldsOf(d))))
                 EXCEPT !.calls = d]

\* a field as validate_all_fields leaves it: passed at the first measurement,
\* or skipped after max_retries measurements
Validated(field, status) ==
    [field EXCEPT !.validation_status = status,
                  !.retry_count = IF status = "passed" THEN 1 ELSE DefaultMaxRetries]

RECURSIVE Measurements(_)
Measurements(list) ==
    IF list = <<>> THEN 0 ELSE Head(list).retry_count + Measurements(Tail(list))

\* _phase_validation: validate_all_fields raises on its first measurement, or
\* returns with every field at one of statuses; the two comprehensions that
\* follow read ValidationStatus.VALIDATED, .FAILED and .RETRY_EXHAUSTED, which
\* the enum does not have, once per field
phase_validation(sm, readable, result, statuses) ==
    LET started == start_phase(sm, "VALIDATION", Len(sm.state.detected_fields))
        detected == sm.state.detected_fields
        measured == [i \in DOMAIN detected |-> Validated(detected[i], statuses[i])]
    IN  IF ~readable
        THEN [Effect(started) EXCEPT !.error = "PDFLoadError"]
        ELSE IF result = "raises"
        THEN [Effect(started) EXCEPT !.error = "VisionAPIError", !.calls = 1]
        ELSE IF detected # <<>>
        THEN [Effect(set_detected_fields(started, measured)) EXCEPT
                 !.error = "AttributeError", !.calls = Measurements(measured)]
        ELSE Effect(complete_phase(set_validated_fields(started, <<>>, <<>>)))

\* _phase_organization
phase_organization(sm) ==
    Effect(complete_phase(update_progress(start_phase(sm, "ORGANIZATION", 3), 3)))

\* _phase_output: the golden map is written, or the first write raises
phase_output(sm, result) ==
    LET started == start_phase(sm, "OUTPUT", 3)
        st == sm.state
        written == add_output_path(add_output_path(add_output_path(
                       started, "golden_map"), "qa_report"), "metrics")
    IN  IF result = "raises"
        THEN [Effect(started) EXCEPT !.error = "OSError"]
        ELSE [Effect(complete_phase(update_progress(written, 3))) EXCEPT
                 !.files = Put(outputs, st.document_path,
                               json_dump(GoldenMap(st.document_hash,
                                                   Len(st.validated_fields))))]

\* _cache_results: both calls return; or the copy raises before or after it
\* opened the cache file; or the write of the index file raises, after
\* add_entry assigned the entry
cache_results(sm, result) ==
    LET st == sm.state
        copied == store_golden_map(sidecar, outputs, st.document_hash, st.document_path)
        entered == add_entry(entries, CacheId(st.document_hash), st.document_hash,
                             Len(st.validated_fields))
    IN  IF ~cache_enabled
        THEN Effect(sm)
        ELSE CASE result = "returns" ->
                      [Effect(sm) EXCEPT
                          !.folder = copied.folder, !.index = entered,
                          !.stored = Put(last_stored, st.document_hash,
                                         outputs[st.document_path])]
               [] result = "copy_raises" ->
                      [Effect(sm) EXCEPT
                          !.error = "CacheError",
                          !.stored = Remove(last_stored, st.document_hash)]
               [] result = "copy_raises_partway" ->
                      [Effect(sm) EXCEPT
                          !.error = "CacheError",
                          !.folder = Put(sidecar, st.document_hash, TruncatedFile),
                          !.stored = Remove(last_stored, st.document_hash)]
               [] result = "index_write_raises" ->
                      [Effect(sm) EXCEPT
                          !.error = "OSError",
                          !.folder = copied.folder, !.index = entered,
                          !.stored = Put(last_stored, st.document_hash,
                                         outputs[st.document_path])]

\* the end of run(): the COMPLETE phase and _build_result
step_complete_unclosed(sm) ==
    [Effect(start_phase(sm, "COMPLETE", 0)) EXCEPT !.returns = "complete"]

step_complete(sm) ==
    [Effect(complete_phase(start_phase(sm, "COMPLETE", 0))) EXCEPT !.returns = "complete"]

\* the end of resume(): delete_checkpoint and _build_result
step_finish_resume(sm) == [Effect(sm) EXCEPT !.returns = "complete"]

\* what a finished call gave and did
CallRecord(op, arg, workflow_id, status, error, raised_in, raised_error, started, made, saves, found, in_run, readable, st, golden_map, restart, lookup) ==
    [op |-> op, arg |-> arg, workflow_id |-> workflow_id, status |-> status,
     error |-> error, raised_in |-> raised_in, raised_error |-> raised_error,
     phases |-> started, api_calls |-> made, save_attempts |-> saves,
     checkpoint_found |-> found, in_run |-> in_run, readable |-> readable,
     document |-> IF st = NoState THEN 0 ELSE st.document_path,
     total_fields |-> IF st = NoState THEN 0 ELSE Len(st.detected_fields),
     validated_fields |-> IF st = NoState THEN 0 ELSE Len(st.validated_fields),
     golden_map |-> golden_map, restart |-> restart, cache_lookup |-> lookup]

\* the executing method takes the step at the head of its plan with effect
\* eff; an exception inside run() goes through run()'s handler (set_error,
\* save_checkpoint, raise), an exception inside resume() goes to the caller
Apply(step, eff) ==
    LET raised == eff.error # NoError
        handled == raised /\ frame = "run"
        sm == IF handled THEN set_error(eff.sm, eff.error) ELSE eff.sm
        saved == IF handled
                 THEN save_checkpoint(checkpoints, sm.state)
                 ELSE [folder |-> checkpoints, result |-> Returned(0)]
        started == IF step \in WorkflowPhase
                   THEN Append(phases_started, step)
                   ELSE phases_started
        made == api_calls + eff.calls
        saves == save_attempts + (IF handled THEN 1 ELSE 0)
        record == CallRecord(IF resume_id = 0 THEN "run" ELSE "resume",
                             IF resume_id = 0 THEN sm.state.document_path ELSE resume_id,
                             sm.state.workflow_id,
                             IF raised THEN "raised" ELSE eff.returns,
                             IF ~raised THEN NoError
                             ELSE IF saved.result.ok THEN eff.error
                             ELSE saved.result.error,
                             IF raised THEN step ELSE "none",
                             eff.error, started, made, saves, resume_id # 0,
                             frame = "run", doc_readable[sm.state.document_path],
                             sm.state, eff.golden_map, restart_phase, eff.lookup)
    IN  /\ state' = sm.state
        /\ current_progress' = sm.current_progress
        /\ checkpoints' = IF step = "finish_resume"
                          THEN delete_checkpoint(checkpoints, resume_id)
                          ELSE saved.folder
        /\ outputs' = eff.files
        /\ sidecar' = eff.folder
        /\ entries' = eff.index
        /\ last_stored' = eff.stored
        /\ phases_started' = started
        /\ api_calls' = made
        /\ save_attempts' = saves
        /\ cache_lookup' = eff.lookup
        /\ IF raised \/ eff.returns # "no"
           THEN /\ frame' = "none"
                /\ plan' = <<>>
                /\ outcome' = record
                /\ log' = Append(log, record)
           ELSE /\ plan' = Tail(plan)
                /\ UNCHANGED <<frame, outcome, log>>
        /\ UNCHANGED <<resume_id, next_id, restart_phase, cp_result, cache_result>>
        /\ UNCHANGED <<coreVars, cfgVars>>

Manager == [state |-> state, current_progress |-> current_progress]

Readable == doc_readable[state.document_path]

AtStep(step) == frame # "none" /\ plan # <<>> /\ Head(plan) = step

\* run(pdf_path) is called: a new workflow id and a new StateManager
Run(d) ==
    /\ frame = "none"
    /\ Len(log) < MaxCalls
    /\ state' = StateManager(next_id, d).state
    /\ current_progress' = StateManager(next_id, d).current_progress
    /\ next_id' = next_id + 1
    /\ frame' = "run"
    /\ plan' = RunPlan
    /\ resume_id' = 0
    /\ restart_phase' = "none"
    /\ outcome' = NoOutcome
    /\ phases_started' = <<>>
    /\ api_calls' = 0
    /\ save_attempts' = 0
    /\ cache_lookup' = "none"
    /\ UNCHANGED <<checkpoints, entries, sidecar, outputs, cp_result, cache_result,
                   last_stored, log>>
    /\ UNCHANGED <<coreVars, cfgVars>>

\* resume(workflow_id) is called: the checkpoint is loaded; without one the
\* construction of WorkflowStateError with two arguments raises TypeError; a
\* checkpoint that stopped in INIT or LOADING hands over to run()
Resume(workflow_id) ==
    /\ frame = "none"
    /\ Len(log) < MaxCalls
    /\ resume_id' = workflow_id
    /\ phases_started' = <<>>
    /\ api_calls' = 0
    /\ save_attempts' = 0
    /\ cache_lookup' = "none"
    /\ LET loaded == load_checkpoint(checkpoints, workflow_id)
           missing == loaded.ok /\ loaded.value = NoState
           record == CallRecord("resume", workflow_id, workflow_id, "raised",
                                IF missing THEN "TypeError" ELSE "CheckpointError",
                                "load_checkpoint",
                                IF missing THEN "TypeError" ELSE "CheckpointError",
                                <<>>, 0, 0, ~missing, FALSE, TRUE, NoState, NoArtifact,
                                "none", "none")
       IN  IF ~loaded.ok \/ missing
           THEN /\ outcome' = record
                /\ log' = Append(log, record)
                /\ restart_phase' = "none"
                /\ UNCHANGED <<state, current_progress, frame, plan, next_id>>
           ELSE /\ outcome' = NoOutcome
                /\ log' = log
                /\ restart_phase' = ResumePhase(loaded.value)
                /\ IF ResumePhase(loaded.value) \in {"INIT", "LOADING"}
                   THEN /\ state' = StateManager(next_id, loaded.value.document_path).state
                        /\ current_progress' = NoProgress
                        /\ next_id' = next_id + 1
                        /\ frame' = "run"
                        /\ plan' = RunPlan
                   ELSE /\ state' = loaded.value
                        /\ current_progress' = NoProgress
                        /\ next_id' = next_id
                        /\ frame' = "resume"
                        /\ plan' = ResumePlan(ResumePhase(loaded.value))
    /\ UNCHANGED <<checkpoints, entries, sidecar, outputs, cp_result, cache_result,
                   last_stored>>
    /\ UNCHANGED <<coreVars, cfgVars>>

CheckCache ==
    /\ AtStep("check_cache")
    /\ Apply("check_cache", step_check_cache(Manager, Readable))

PhaseLoading ==
    /\ AtStep("LOADING")
    /\ Apply("LOADING", phase_loading(Manager, Readable))

PhaseDetection(result) ==
    /\ AtStep("DETECTION")
    /\ Apply("DETECTION", phase_detection(Manager, Readable, result))

PhaseValidation(result, statuses) ==
    /\ AtStep("VALIDATION")
    /\ Len(statuses) = Len(state.detected_fields)
    /\ result = "raises" =>
           /\ state.detected_fields # <<>>
           /\ \A i \in DOMAIN statuses : statuses[i] = "skipped"
    /\ Apply("VALIDATION", phase_validation(Manager, Readable, result, statuses))

PhaseOrganization ==
    /\ AtStep("ORGANIZATION")
    /\ Apply("ORGANIZATION", phase_organization(Manager))

PhaseOutput(result) ==
    /\ AtStep("OUTPUT")
    /\ Apply("OUTPUT", phase_output(Manager, result))

CacheResults(result) ==
    /\ AtStep("cache_results")
    /\ ~cache_enabled => result = "returns"
    /\ Apply("cache_results", cache_results(Manager, result))

Complete ==
    /\ AtStep("COMPLETE")
    /\ Apply("COMPLETE", step_complete(Manager))

FinishResume ==
    /\ AtStep("finish_resume")
    /\ Apply("finish_resume", step_finish_resume(Manager))

\* between two calls the cached artifact of hash h is deleted
\* (SidecarManager.delete_cached_map); the index is not told
DeleteCachedMap(h) ==
    /\ frame = "none"
    /\ Len(log) < MaxCalls
    /\ h \in DOMAIN sidecar
    /\ sidecar' = delete_cached_map(sidecar, h)
    /\ last_stored' = Remove(last_stored, h)
    /\ LET record == [CallRecord("delete_cached_map", h, 0, "complete", NoError, "none",
                                 NoError, <<>>, 0, 0, FALSE, FALSE, TRUE, NoState,
                                 NoArtifact, "none", "none") EXCEPT !.document = h]
       IN  /\ outcome' = record
           /\ log' = Append(log, record)
    /\ UNCHANGED <<phases_started, api_calls, save_attempts, cache_lookup>>
    /\ UNCHANGED <<state, current_progress, frame, plan, resume_id, next_id, restart_phase>>
    /\ UNCHANGED <<checkpoints, entries, outputs, cp_result, cache_result>>
    /\ UNCHANGED <<coreVars, cfgVars>>

\* between two calls a document is removed, or put back
SetReadable(d) ==
    /\ frame = "none"
    /\ doc_readable' = [doc_readable EXCEPT ![d] = ~@]
    /\ UNCHANGED <<cache_enabled, sharedVars>>
    /\ UNCHANGED <<checkpoints, entries, sidecar, outputs, cp_result, cache_result,
                   last_stored>>
    /\ UNCHANGED <<coreVars, callVars, obsVars>>

InitWorkflow ==
    /\ cache_enabled \in BOOLEAN
    /\ doc_readable = [d \in Docs |-> TRUE]
    /\ SharedIdle
    /\ WfFresh
    /\ EngineDefault /\ ParamIdle /\ TolIdle /\ ValIdle /\ DetDefault /\ DetIdle

NextWorkflow ==
    \/ \E d \in Docs : Run(d)
    \/ \E workflow_id \in 1..(next_id - 1) : Resume(workflow_id)
    \/ CheckCache
    \/ PhaseLoading
    \/ \E result \in {"returns", "raises"} : PhaseDetection(result)
    \/ \E result \in {"returns", "raises"} :
           \E statuses \in SeqsUpTo({"passed", "skipped"}, MaxDocs) :
               PhaseValidation(result, statuses)
    \/ PhaseOrganization
    \/ \E result \in {"returns", "raises"} : PhaseOutput(result)
    \/ \E result \in {"returns", "copy_raises", "copy_raises_partway",
                      "index_write_raises"} : CacheResults(result)
    \/ Complete
    \/ FinishResume
    \/ \E d \in Docs : SetReadable(d)
    \/ \E h \in Docs : DeleteCachedMap(h)

SpecWorkflow == InitWorkflow /\ [][NextWorkflow]_vars

----------------------------------------------------------------------------
(* Properties of the orchestrator *)

\* a call has returned or raised and no other call has begun
Finished == frame = "none" /\ outcome # NoOutcome

\* the calls that finished before the last one
Earlier == 1..(Len(log) - 1)

\* C12: when a phase raises during run(), the open phase is closed with the
\* error message and appended to the history, current_phase becomes ERROR, a
\* checkpoint of the state is saved, and the caller of run() gets the
\* exception the phase raised
C12_PhaseErrorReachesCaller ==
    (Finished /\ outcome.in_run /\ outcome.status = "raised"
         /\ outcome.raised_in \in WorkflowPhase)
        => /\ state.current_phase = "ERROR"
           /\ state.error = outcome.raised_error
           /\ current_progress = NoProgress
           /\ state.phase_history # <<>>
           /\ LET closed == state.phase_history[Len(state.phase_history)]
              IN  /\ closed.phase = outcome.raised_in
                  /\ closed.error_message = outcome.raised_error
           /\ load_checkpoint(checkpoints, state.workflow_id) = Returned(state)
           /\ outcome.error = outcome.raised_error

\* C13: after an exception raised in a phase executed by run() or by
\* resume(), exactly one checkpoint save was attempted and a checkpoint of the
\* workflow id exists that load_checkpoint deserializes
C13_EveryFailureLeavesCheckpoint ==
    (Finished /\ outcome.status = "raised" /\ outcome.raised_in \in WorkflowPhase)
        => /\ outcome.save_attempts = 1
           /\ LET loaded == load_checkpoint(checkpoints, outcome.workflow_id)
              IN  /\ loaded.ok
                  /\ loaded.value # NoState
                  /\ loaded.value.workflow_id = outcome.workflow_id

\* C16: a resume(id) after a resume(id) that returned complete finds no
\* checkpoint, starts no phase and makes no recognition call
C16_SecondResumeIsNoOp ==
    (Finished /\ outcome.op = "resume"
         /\ \E i \in Earlier : /\ log[i].op = "resume"
                               /\ log[i].arg = outcome.arg
                               /\ log[i].status = "complete")
        => /\ ~outcome.checkpoint_found
           /\ outcome.phases = <<>>
           /\ outcome.api_calls = 0

\* C17: for a run() that was interrupted in validation, after its detection
\* phase completed, the first resume(id) starts validation, organization and
\* output in this order and no other phase, and when it returns its field
\* counts are those of the detection that was done and of every complete run
\* of the same document
C17_ResumeAfterDetection ==
    (Finished /\ outcome.op = "resume"
         /\ ~\E i \in Earlier : log[i].op = "resume" /\ log[i].arg = outcome.arg)
        => \A i \in Earlier :
               (log[i].workflow_id = outcome.arg /\ log[i].status = "raised"
                    /\ log[i].raised_in = "VALIDATION")
                   => /\ outcome.phases # <<>>
                      /\ outcome.phases =
                             SubSeq(<<"VALIDATION", "ORGANIZATION", "OUTPUT">>,
                                    1, Len(outcome.phases))
                      /\ outcome.status = "raised" => outcome.raised_in \in WorkflowPhase
                      /\ outcome.status = "complete" =>
                             /\ Len(outcome.phases) = 3
                             /\ outcome.total_fields = log[i].total_fields
                             /\ \A j \in Earlier :
                                    (log[j].op = "run" /\ log[j].status = "complete"
                                         /\ log[j].document = outcome.document)
                                        => /\ log[j].total_fields = outcome.total_fields
                                           /\ log[j].validated_fields =
                                                  outcome.validated_fields

\* C18: with caching enabled, a run() of a readable document of which an
\* earlier run() completed and cached its result (the cached artifact not
\* having been deleted since) returns status cached with the stored artifact,
\* starts no phase and makes no recognition call
C18_SecondRunIsCached ==
    (Finished /\ outcome.op = "run" /\ cache_enabled /\ outcome.readable
         /\ \E i \in Earlier :
                /\ log[i].op = "run"
                /\ log[i].document = outcome.document
                /\ log[i].status = "complete"
                /\ ~\E j \in Earlier : /\ j > i
                                       /\ log[j].op = "delete_cached_map"
                                       /\ log[j].document = outcome.document)
        => /\ outcome.status = "cached"
           /\ outcome.document \in DOMAIN last_stored
           /\ json_dump(outcome.golden_map) = last_stored[outcome.document]
           /\ outcome.phases = <<>>
           /\ outcome.api_calls = 0

\* document 1 was run to completion with one recognition call and cached,
\* and its second run came back from the cache
C18_Witness ==
    /\ Finished
    /\ cache_enabled
    /\ Len(log) = 2
    /\ log[1].op = "run"
    /\ log[1].document = 1
    /\ log[1].status = "complete"
    /\ log[1].api_calls = 1
    /\ outcome.op = "run"
    /\ outcome.document = 1
    /\ outcome.status = "cached"
    /\ outcome.golden_map = GoldenMap(1, 0)
    /\ outcome.phases = <<>>

\* C20: a failure of a cache operation during run() never fails the run: the
\* call does not raise out of _check_cache's lookups or out of
\* _cache_results, and the workflow is not put in the error state by them
C20_CacheFailureNeverFailsRun ==
    (Finished /\ outcome.in_run /\ outcome.raised_in = "cache_results")
        => /\ outcome.status = "complete"
           /\ state.current_phase # "ERROR"

----------------------------------------------------------------------------
(* cache/index.py: one CacheIndex instance under add_entry, remove_entry and
   get_entry calls *)

\* CacheIndex.remove_entry: _entries after the call, and the value returned
remove_entry(index, document_hash) ==
    IF document_hash \in DOMAIN index
    THEN [index |-> Remove(index, document_hash), result |-> TRUE]
    ELSE [index |-> index, result |-> FALSE]

\* add_entry(...) is called; it returns, or _save_index raises after the
\* entry was assigned
IndexAdd(h, field_count, result) ==
    /\ frame = "none"
    /\ Len(log) < MaxCalls
    /\ entries' = add_entry(entries, CacheId(h), h, field_count)
    /\ log' = Append(log, [op |-> "add_entry", hash |-> h,
                           entry |-> CacheEntry(CacheId(h), h, field_count),
                           result |-> result])
    /\ cache_result' = NoOutcome
    /\ UNCHANGED <<phases_started, api_calls, save_attempts, cache_lookup>>
    /\ UNCHANGED <<checkpoints, sidecar, outputs, cp_result, last_stored>>
    /\ UNCHANGED <<coreVars, cfgVars, callVars>>

\* remove_entry(h) is called; it returns, or _save_index raises after the
\* entry was deleted
IndexRemove(h, result) ==
    /\ frame = "none"
    /\ Len(log) < MaxCalls
    /\ result = "raises" => h \in DOMAIN entries
    /\ entries' = remove_entry(entries, h).index
    /\ log' = Append(log, [op |-> "remove_entry", hash |-> h,
                           entry |-> NoEntry, result |-> result])
    /\ cache_result' = NoOutcome
    /\ UNCHANGED <<phases_started, api_calls, save_attempts, cache_lookup>>
    /\ UNCHANGED <<checkpoints, sidecar, outputs, cp_result, last_stored>>
    /\ UNCHANGED <<coreVars, cfgVars, callVars>>

InitIndex == InitCache

NextIndex ==
    \/ \E h \in Docs : \E field_count \in 0..1 : \E result \in {"returns", "raises"} :
           IndexAdd(h, field_count, result)
    \/ \E h \in Docs : \E result \in {"returns", "raises"} : IndexRemove(h, result)
    \/ \E h \in Docs : GetEntry(h)

SpecIndex == InitIndex /\ [][NextIndex]_vars

----------------------------------------------------------------------------
(* Properties of the cache index *)

\* the add_entry and remove_entry calls made for hash h, by position
IndexCalls(h) == {i \in 1..Len(log) : log[i].hash = h}

LastIndexCall(h) == CHOOSE i \in IndexCalls(h) : \A j \in IndexCalls(h) : j <= i

\* C21: after any sequence of add_entry and remove_entry calls the index holds
\* one entry per hash, filed under its own hash, and get_entry(H) returns the
\* entry of the last add_entry for H unless a remove_entry(H) followed it, in
\* which case, or when H was never added, it returns None
C21_NewestEntryPerHash ==
    /\ \A h \in DOMAIN entries : entries[h].document_hash = h
    /\ (cache_result # NoOutcome /\ cache_result.op = "get_entry")
           => LET h == cache_result.hash
              IN  /\ cache_result.result.ok
                  /\ IF IndexCalls(h) = {} \/ log[LastIndexCall(h)].op = "remove_entry"
                     THEN cache_result.result.value = NoEntry
                     ELSE cache_result.result.value = log[LastIndexCall(h)].entry

\* hash 1 was added twice with different entries and the second came back
C21_Witness ==
    /\ cache_result # NoOutcome
    /\ cache_result.op = "get_entry"
    /\ cache_result.hash = 1
    /\ Len(log) = 2
    /\ log[1].op = "add_entry" /\ log[1].hash = 1 /\ log[1].entry.field_count = 0
    /\ log[2].op = "add_entry" /\ log[2].hash = 1 /\ log[2].entry.field_count = 1
    /\ cache_result.result.value = CacheEntry(CacheId(1), 1, 1)

\* the five working phases, and those of them a call started, in order
WorkPhases == <<"LOADING", "DETECTION", "VALIDATION", "ORGANIZATION", "OUTPUT">>

IsWorkPhase(phase) == \E k \in 1..Len(WorkPhases) : WorkPhases[k] = phase

\* the working phases from the phase a checkpoint restarts at to the last
FromPhase(phase) ==
    IF phase = "INIT"
    THEN WorkPhases
    ELSE IF IsWorkPhase(phase)
    THEN SubSeq(WorkPhases, CHOOSE k \in 1..Len(WorkPhases) : WorkPhases[k] = phase,
                Len(WorkPhases))
    ELSE <<>>

\* C25 as stated: every resume(id) that returns executes the phase the
\* checkpoint restarts at and every later working phase, once each and in
\* order, and no earlier phase
C25_ResumeRunsRestartPhaseOnward ==
    (Finished /\ outcome.op = "resume" /\ outcome.status \in {"complete", "cached"})
        => SelectSeq(outcome.phases, IsWorkPhase) = FromPhase(outcome.restart)

\* C25: a resume(id) that returns status complete has executed the phase the
\* checkpoint restarts at and every later working phase, once each and in
\* order, and no earlier phase; a resume(id) that returns status cached
\* restarted at init or loading and executed no phase
C25_ResumeRunsRestartPhaseOnwardUnlessCached ==
    (Finished /\ outcome.op = "resume")
        => /\ outcome.status = "complete" =>
                  SelectSeq(outcome.phases, IsWorkPhase) = FromPhase(outcome.restart)
           /\ outcome.status = "cached" =>
                  /\ outcome.restart \in {"INIT", "LOADING"}
                  /\ outcome.phases = <<>>

\* a workflow that failed in detection was resumed from detection to the end
C25_Witness ==
    /\ Finished
    /\ outcome.op = "resume"
    /\ outcome.status = "complete"
    /\ outcome.restart = "DETECTION"
    /\ outcome.phases = <<"DETECTION", "VALIDATION", "ORGANIZATION", "OUTPUT">>
    /\ \E i \in Earlier : /\ log[i].workflow_id = outcome.arg
                          /\ log[i].raised_in = "DETECTION"

\* C26: after a resume(id) that returns, whichever phase it restarted from,
\* no checkpoint of id remains in the checkpoint folder
C26_ResumeDeletesCheckpoint ==
    (Finished /\ outcome.op = "resume" /\ outcome.status \in {"complete", "cached"})
        => outcome.arg \notin DOMAIN checkpoints

\* C27: a resume(id) that cannot load its checkpoint raises WorkflowStateError
\* when there is no checkpoint and CheckpointError when the file cannot be
\* read, starts no phase and makes no recognition call
C27_LoadFailureIsTyped ==
    (Finished /\ outcome.op = "resume" /\ outcome.raised_in = "load_checkpoint")
        => /\ outcome.status = "raised"
           /\ outcome.error = IF outcome.checkpoint_found
                              THEN "CheckpointError"
                              ELSE "WorkflowStateError"
           /\ outcome.phases = <<>>
           /\ outcome.api_calls = 0

\* C28: a run() whose index lookup finds an entry while the store has no
\* artifact goes on as after a miss: it does not return cached and does not
\* raise out of the lookup, it starts with loading, and when it returns
\* complete it has executed every phase and called the recognition service
C28_EntryWithoutArtifactIsMiss ==
    (Finished /\ outcome.in_run /\ outcome.cache_lookup = "no_artifact")
        => /\ outcome.status # "cached"
           /\ outcome.raised_in # "check_cache"
           /\ outcome.phases # <<>>
           /\ outcome.phases[1] = "LOADING"
           /\ outcome.status = "complete" =>
                  /\ outcome.phases = Append(WorkPhases, "COMPLETE")
                  /\ outcome.api_calls > 0

\* the artifact of document 1 was deleted after a complete run; the next run
\* found the index entry, no artifact, and processed the document in full
C28_Witness ==
    /\ Finished
    /\ outcome.op = "run"
    /\ outcome.document = 1
    /\ outcome.cache_lookup = "no_artifact"
    /\ outcome.status = "complete"
    /\ outcome.api_calls = 1
    /\ Len(log) = 3
    /\ log[1].op = "run" /\ log[1].status = "complete"
    /\ log[2].op = "delete_cached_map"

----------------------------------------------------------------------------
(* workflow/state.py: one StateManager under calls in any order *)

\* the manager after an operation, the call appended to the log
Called(sm, call) ==
    /\ frame = "none"
    /\ Len(log) < MaxOps
    /\ state' = sm.state
    /\ current_progress' = sm.current_progress
    /\ log' = Append(log, call)
    /\ phases_started' = IF call.op = "start_phase"
                         THEN Append(phases_started, call.phase)
                         ELSE phases_started
    /\ UNCHANGED <<frame, plan, outcome, resume_id, next_id, restart_phase>>
    /\ UNCHANGED <<api_calls, save_attempts, cache_lookup>>
    /\ UNCHANGED <<checkpoints, entries, sidecar, outputs, cp_result, cache_result,
                   last_stored>>
    /\ UNCHANGED <<coreVars, cfgVars>>

StartPhase(phase, total_items) ==
    Called(start_phase(Manager, phase, total_items),
           [op |-> "start_phase", phase |-> phase])

UpdateProgress(items_completed) ==
    Called(update_progress(Manager, items_completed),
           [op |-> "update_progress", phase |-> "none"])

CompletePhase ==
    Called(complete_phase(Manager), [op |-> "complete_phase", phase |-> "none"])

SetError(error_message) ==
    Called(set_error(Manager, error_message), [op |-> "set_error", phase |-> "none"])

SetDocumentHash ==
    Called(set_document_hash(Manager, 1), [op |-> "set_document_hash", phase |-> "none"])

SetPages ==
    Called(set_pages(Manager, PagesOf(1)), [op |-> "set_pages", phase |-> "none"])

SetDetectedFields ==
    Called(set_detected_fields(Manager, FieldsOf(2)),
           [op |-> "set_detected_fields", phase |-> "none"])

SetValidatedFields ==
    Called(set_validated_fields(Manager, FieldsOf(2), <<>>),
           [op |-> "set_validated_fields", phase |-> "none"])

AddOutputPath ==
    Called(add_output_path(Manager, "golden_map"),
           [op |-> "add_output_path", phase |-> "none"])

\* StateManager.__init__
InitState ==
    /\ cache_enabled = TRUE
    /\ doc_readable = [d \in Docs |-> TRUE]
    /\ SharedIdle
    /\ state = StateManager(1, 1).state
    /\ current_progress = StateManager(1, 1).current_progress
    /\ frame = "none"
    /\ plan = <<>>
    /\ outcome = NoOutcome
    /\ resume_id = 0
    /\ next_id = 1
    /\ restart_phase = "none"
    /\ checkpoints = <<>>
    /\ entries = <<>>
    /\ sidecar = <<>>
    /\ outputs = <<>>
    /\ cp_result = NoOutcome
    /\ cache_result = NoOutcome
    /\ last_stored = <<>>
    /\ phases_started = <<>>
    /\ api_calls = 0
    /\ save_attempts = 0
    /\ cache_lookup = "none"
    /\ log = <<>>
    /\ EngineDefault /\ ParamIdle /\ TolIdle /\ ValIdle /\ DetDefault /\ DetIdle

NextState ==
    \/ \E phase \in WorkflowPhase : \E total_items \in {0, 2} :
           StartPhase(phase, total_items)
    \/ \E items_completed \in 1..2 : UpdateProgress(items_completed)
    \/ CompletePhase
    \/ \E error_message \in {"VisionAPIError", "OSError"} : SetError(error_message)
    \/ SetDocumentHash
    \/ SetPages
    \/ SetDetectedFields
    \/ SetValidatedFields
    \/ AddOutputPath

SpecState == InitState /\ [][NextState]_vars

----------------------------------------------------------------------------
(* Properties of the StateManager *)

PhaseOpen == current_progress # NoProgress

\* C22: once set_error has been called (state.error is set and nothing
\* clears it), current_phase is ERROR after every later operation
C22_ErrorIsAbsorbing ==
    state.error # NoError => state.current_phase = "ERROR"

\* C29: phase_history lists the phases that were started and have been
\* closed, once each, in the order they were started, each stamped with a
\* completion time; the open phase, if any, is the last one started; and
\* len(phase_history) + (1 if a phase is open else 0) is the number of
\* start_phase calls made
C29_HistoryRecordsStartedPhases ==
    LET history == state.phase_history
        started == SelectSeq(log, LAMBDA call : call.op = "start_phase")
    IN  /\ Len(history) + (IF PhaseOpen THEN 1 ELSE 0) = Len(started)
        /\ \A i \in 1..Len(history) : /\ history[i].phase = started[i].phase
                                      /\ history[i].completed_at
                                      /\ history[i].started_at
        /\ PhaseOpen => /\ current_progress.phase = started[Len(started)].phase
                        /\ ~current_progress.completed_at

\* a second start_phase closed the first phase, which was never completed
C29_Witness ==
    /\ Len(log) = 3
    /\ log[1].op = "start_phase" /\ log[1].phase = "DETECTION"
    /\ log[2].op = "update_progress"
    /\ log[3].op = "start_phase" /\ log[3].phase = "LOADING"
    /\ Len(state.phase_history) = 1
    /\ state.phase_history[1].phase = "DETECTION"
    /\ state.phase_history[1].progress_percent = 50
    /\ state.phase_history[1].completed_at
    /\ PhaseOpen
    /\ current_progress.phase = "LOADING"

\* C30 as stated: current_phase is the phase of the open progress record or,
\* when no phase is open, COMPLETE or ERROR
C30_PointerIsOpenPhaseOrTerminal ==
    IF PhaseOpen
    THEN state.current_phase = current_progress.phase
    ELSE state.current_phase \in {"COMPLETE", "ERROR"}

\* C30: current_phase is the phase of the open progress record; when no
\* phase is open it is ERROR, or the phase of the last record of the history
\* (the phase completed last), or INIT while the history is empty
C30_PointerIsOpenOrLastClosedPhase ==
    IF PhaseOpen
    THEN state.current_phase = current_progress.phase
    ELSE \/ state.current_phase = "ERROR"
         \/ /\ state.phase_history = <<>>
            /\ state.current_phase = "INIT"
         \/ /\ state.phase_history # <<>>
            /\ state.current_phase =
                   state.phase_history[Len(state.phase_history)].phase

\* loading was started and completed: no phase is open and the pointer still
\* names loading
C30_Witness ==
    /\ ~PhaseOpen
    /\ Len(log) = 2
    /\ log[1].op = "start_phase"
    /\ log[2].op = "complete_phase"
    /\ state.current_phase = "LOADING"
    /\ Len(state.phase_history) = 1
    /\ state.phase_history[1].phase = "LOADING"
    /\ state.phase_history[1].progress_percent = 100

----------------------------------------------------------------------------
(* The validation coordinator built from a configuration that sets
   validation.tolerance *)

\* tolerances a configuration can set, in tenths of a unit
ConfiguredTolerances ==
    (0..MaxTolerance) \cup {DefaultTolerance, DefaultTolerance + 1}

\* ValidationCoordinator.__init__ with config.validation.tolerance set: the
\* ToleranceChecker gets the configured tolerance, the retry engine the
\* default attempts, and the fields come fresh from the detector
InitConfigured ==
    /\ tolerance \in ConfiguredTolerances
    /\ tExpected = Coordinates(0, 0, 0, 0)
    /\ tMeasured = Coordinates(0, 0, 0, 0)
    /\ tResult = NoResult
    /\ max_attempts = DefaultMaxRetries
    /\ parameters = post_init(EmptyTable)
    /\ retry_pool = <<>>
    /\ fields \in FreshLists
    /\ initFields = fields
    /\ vpc = "idle"
    /\ idx = 0
    /\ validated_fields = <<>>
    /\ passed_count = 0
    /\ batch_size = DefaultBatchSize
    /\ progress_reports = <<>>
    /\ skipped_count = 0
    /\ max_retries_used = 0
    /\ summary = NoSummary
    /\ callParams = NoParameters
    /\ calls = [i \in 1..Len(fields) |-> <<>>]
    /\ rounds = 0
    /\ max_concurrent_requests = DefaultMaxConcurrentRequests
    /\ semaphore = max_concurrent_requests
    /\ ParamIdle /\ DetIdle /\ WfIdle

SpecConfigured == InitConfigured /\ [][NextValidation]_vars

\* C23: under every configured tolerance T, a field whose last attempt
\* returned a measurement is marked passed if and only if the Chebyshev
\* difference of that measurement is <= T
C23_AcceptUsesConfiguredTolerance ==
    \A i \in 1..Len(fields) :
        (/\ fields[i].validation_evidence # NoEvidence
         /\ calls[i] # <<>>
         /\ calls[i][Len(calls[i])].result # "error")
        => (fields[i].validation_status = "passed"
            <=> fields[i].validation_evidence.difference <= tolerance)

----------------------------------------------------------------------------
(* The validation phase inside the workflow *)

\* C24: a validation phase in which neither the document read nor a
\* measurement call failed completes, and when it has, validated_fields is
\* exactly the detected fields with status passed, retry_pool exactly those
\* with status skipped, and every detected field is in one of the two
C24_ValidationPartitionsDetectedFields ==
    (/\ Finished
     /\ outcome.op \in {"run", "resume"}
     /\ \E i \in DOMAIN outcome.phases : outcome.phases[i] = "VALIDATION"
     /\ ~(/\ outcome.raised_in = "VALIDATION"
          /\ outcome.raised_error \in {"PDFLoadError", "VisionAPIError"}))
        => LET detected == state.detected_fields
           IN  /\ outcome.raised_in # "VALIDATION"
               /\ state.validated_fields =
                      SelectSeq(detected, LAMBDA f : f.validation_status = "passed")
               /\ state.retry_pool =
                      SelectSeq(detected, LAMBDA f : f.validation_status = "skipped")
               /\ \A i \in DOMAIN detected :
                      detected[i].validation_status \in {"passed", "skipped"}

----------------------------------------------------------------------------
(* Step properties of the StateManager *)

IsPrefixOf(s, t) == Len(s) <= Len(t) /\ SubSeq(t, 1, Len(s)) = s

\* the step is a call of update_progress
UpdateProgressStep ==
    /\ Len(log') = Len(log) + 1
    /\ log'[Len(log')].op = "update_progress"

C32_SetErrorClosesOpenPhase ==
    [][\A m \in {"VisionAPIError", "OSError"} :
           SetError(m) =>
               /\ IF PhaseOpen
                  THEN /\ Len(state'.phase_history) = Len(state.phase_history) + 1
                       /\ IsPrefixOf(state.phase_history, state'.phase_history)
                       /\ state'.phase_history[Len(state'.phase_history)] =
                              [current_progress EXCEPT !.error_message = m,
                                                       !.completed_at = TRUE]
                  ELSE state'.phase_history = state.phase_history
               /\ current_progress' = NoProgress
               /\ state'.current_phase = "ERROR"
               /\ state'.error = m]_vars

\* set_error closed the open phase and a second set_error appended nothing
C32_Witness ==
    /\ Len(log) = 3
    /\ log[1].op = "start_phase"
    /\ log[2].op = "set_error"
    /\ log[3].op = "set_error"
    /\ Len(state.phase_history) = 1
    /\ state.phase_history[1].error_message = "VisionAPIError"
    /\ state.error = "OSError"
    /\ state.current_phase = "ERROR"
    /\ ~PhaseOpen

----------------------------------------------------------------------------
(* validate_all_fields called with a progress callback and a batch size *)

InitProgress ==
    /\ max_attempts \in 1..MaxSmallRetries
    /\ parameters = post_init(EmptyTable)
    /\ retry_pool = <<>>
    /\ fields \in FreshLists
    /\ initFields = fields
    /\ vpc = "idle"
    /\ idx = 0
    /\ validated_fields = <<>>
    /\ passed_count = 0
    /\ skipped_count = 0
    /\ max_retries_used = 0
    /\ summary = NoSummary
    /\ callParams = NoParameters
    /\ calls = [i \in 1..Len(fields) |-> <<>>]
    /\ rounds = 0
    /\ batch_size \in 1..MaxBatchSize
    /\ progress_reports = <<>>
    /\ ParamIdle /\ TolIdle /\ DetDefault /\ DetIdle /\ WfIdle

SpecProgress == InitProgress /\ [][NextValidation]_vars

\* C33: the k-th progress report of a validate_all_fields call is made after
\* k * batch_size fields and reports validated = that number,
\* passed + failed + skipped = validated, and current_accuracy =
\* passed / validated as a percentage
C33_ProgressReportsRunningCounts ==
    \A k \in DOMAIN progress_reports :
        LET progress == progress_reports[k]
        IN  /\ progress.validated = k * batch_size
            /\ progress.passed + progress.failed + progress.skipped = progress.validated
            /\ progress.current_accuracy =
                   (progress.passed * 100) \div progress.validated

----------------------------------------------------------------------------
(* The summary validate_all_fields returns *)

\* C40: every ValidationSummary returned has passed + skipped =
\* total_fields, retry_pool_count = skipped, and max_retries_used = the
\* largest retry_count among the validated fields (0 for an empty list),
\* also when the coordinator has validated a list before
C40_SummaryCountsAgree ==
    (vpc = "returned" /\ summary # NoSummary)
        => /\ summary.passed + summary.skipped = summary.total_fields
           /\ summary.retry_pool_count = summary.skipped
           /\ summary.max_retries_used =
                  max({0} \cup {fields[i].retry_count : i \in 1..Len(fields)})

\* C40 restricted to the first validate_all_fields call of a coordinator
C40_FirstSummaryCountsAgree ==
    (vpc = "returned" /\ summary # NoSummary /\ rounds = 1)
        => /\ summary.passed + summary.skipped = summary.total_fields
           /\ summary.retry_pool_count = summary.skipped
           /\ summary.max_retries_used =
                  max({0} \cup {fields[i].retry_count : i \in 1..Len(fields)})

----------------------------------------------------------------------------
(* Termination of validate_all_fields *)

RECURSIVE CallCount(_)
\* measurement calls made, over all fields
CallCount(made) ==
    IF made = <<>> THEN 0 ELSE Len(Head(made)) + CallCount(Tail(made))

\* a field as the detector built it, as an earlier validation passed it at
\* its first attempt, or as an earlier validation gave it up
HandedField(page, m) ==
    {FreshField(page),
     [FreshField(page) EXCEPT !.validation_status = "passed", !.retry_count = 1],
     [FreshField(page) EXCEPT !.validation_status = "skipped", !.retry_count = m]}

HandedLists(m) ==
    UNION {{fs \in [1..n -> UNION {HandedField(p, m) : p \in 1..n}] :
               \A i \in 1..n : fs[i].page_number = i} : n \in 0..MaxFields}

\* a coordinator with few attempts, handed a list of such fields
InitTermination ==
    /\ max_attempts \in 1..MaxSmallRetries
    /\ parameters = post_init(EmptyTable)
    /\ retry_pool = <<>>
    /\ fields \in HandedLists(max_attempts)
    /\ initFields = fields
    /\ vpc = "idle"
    /\ idx = 0
    /\ validated_fields = <<>>
    /\ passed_count = 0
    /\ skipped_count = 0
    /\ max_retries_used = 0
    /\ summary = NoSummary
    /\ callParams = NoParameters
    /\ calls = [i \in 1..Len(fields) |-> <<>>]
    /\ rounds = 0
    /\ batch_size = DefaultBatchSize
    /\ progress_reports = <<>>
    /\ ParamIdle /\ TolIdle /\ DetDefault /\ DetIdle /\ WfIdle

\* the loop is scheduled and every measurement call issued comes back
SpecValidationFair ==
    /\ InitTermination
    /\ [][NextValidation]_vars
    /\ WF_vars(IssueMeasurement)
    /\ WF_vars(LeaveRetryLoop)
    /\ WF_vars(\E response \in Responses : MeasurementReturns(response))

\* C35: validate_all_fields, once called, returns (or raises, when a call
\* fails); no field is measured more than max_attempts times, a field that
\* was handed over as passed is not measured at all, and so at most
\* len(fields) * max_attempts measurement calls are made
C35_ValidationTerminates ==
    /\ [](\A i \in 1..Len(fields) :
              /\ Len(calls[i]) <= max_attempts
              /\ initFields[i].validation_status = "passed" => calls[i] = <<>>)
    /\ [](CallCount(calls) <= Len(fields) * max_attempts)
    /\ (vpc \in {"loop", "await"}) ~> (vpc \in {"returned", "raised"})

\* validate_all_fields has returned after spending every attempt on a field
C35_Witness ==
    /\ vpc = "returned"
    /\ max_attempts = MaxSmallRetries
    /\ Len(fields) = MaxFields
    /\ Len(calls[1]) = max_attempts
    /\ \A k \in 1..Len(calls[1]) : calls[1][k].result = "fail"
    /\ initFields[2].validation_status = "passed"
    /\ calls[2] = <<>>

----------------------------------------------------------------------------
(* The canonical sequence of a successful run *)

CanonicalPhases ==
    <<"LOADING", "DETECTION", "VALIDATION", "ORGANIZATION", "OUTPUT", "COMPLETE">>

\* C34: a run() that returns status complete has started the phases loading,
\* detection, validation, organization, output, complete once each in that
\* order; on return current_phase is COMPLETE, no phase is open, and
\* phase_history holds the six records in that order, each completed without
\* an error; result caching comes after output has completed and before
\* complete is started, and with caching enabled the document is in the
\* cache on return
C34_SuccessfulRunIsCanonical ==
    /\ (Finished /\ outcome.op \in {"run", "resume"} /\ outcome.in_run
            /\ outcome.status = "complete")
           => /\ outcome.phases = CanonicalPhases
              /\ state.current_phase = "COMPLETE"
              /\ current_progress = NoProgress
              /\ Len(state.phase_history) = Len(CanonicalPhases)
              /\ \A i \in DOMAIN state.phase_history :
                     /\ state.phase_history[i].phase = CanonicalPhases[i]
                     /\ state.phase_history[i].completed_at
                     /\ state.phase_history[i].progress_percent = 100
                     /\ state.phase_history[i].error_message = NoError
              /\ cache_enabled =>
                     /\ get_entry(entries, state.document_hash) # NoEntry
                     /\ retrieve_golden_map(sidecar, state.document_hash) # NoArtifact
    /\ (frame = "run" /\ plan # <<>> /\ Head(plan) = "cache_results")
           => /\ phases_started = SubSeq(CanonicalPhases, 1, 5)
              /\ Len(state.phase_history) = 5
              /\ state.phase_history[5].phase = "OUTPUT"
              /\ current_progress = NoProgress

\* a run with caching enabled has returned complete
C34_Witness ==
    /\ Finished
    /\ outcome.op = "run"
    /\ outcome.status = "complete"
    /\ cache_enabled
    /\ Len(state.phase_history) = 6
    /\ state.current_phase = "COMPLETE"

----------------------------------------------------------------------------
(* What a successful resume leaves behind *)

\* C36: after resume(id) has returned status complete, current_phase is
\* COMPLETE and the last record of phase_history is the complete phase, as
\* after a successful run()
C36_ResumeEndsComplete ==
    (Finished /\ outcome.op = "resume" /\ outcome.status = "complete")
        => /\ state.current_phase = "COMPLETE"
           /\ state.phase_history # <<>>
           /\ state.phase_history[Len(state.phase_history)].phase = "COMPLETE"

\* C37: with caching enabled, after resume(id) has returned status complete
\* the cache index has an entry for the document's content hash, and a later
\* run() on the same (readable) document returns status cached
C37_ResumedDocumentIsCached ==
    /\ (Finished /\ cache_enabled /\ outcome.op = "resume"
            /\ outcome.status = "complete")
           => get_entry(entries, state.document_hash) # NoEntry
    /\ (Finished /\ cache_enabled /\ outcome.op = "run" /\ outcome.readable
            /\ \E i \in Earlier :
                   /\ log[i].op = "resume"
                   /\ log[i].status = "complete"
                   /\ log[i].document = outcome.document
                   /\ ~\E j \in Earlier : /\ j > i
                                          /\ log[j].op = "delete_cached_map"
                                          /\ log[j].document = outcome.document)
           => outcome.status = "cached"

----------------------------------------------------------------------------
(* cache/index.py: several orchestrators constructed on one cache directory.
   Each has its own CacheIndex, loaded from the index file when it is
   constructed and written back in full by add_entry *)

\* CacheIndex._save_index: the file written from the in-memory entries
save_index(index) ==
    json_dump([entries |-> {[cacheId |-> index[h].cache_id,
                             documentHash |-> index[h].document_hash,
                             fieldCount |-> index[h].field_count] : h \in DOMAIN index}])

\* CacheIndex._load_index: the in-memory entries read from the file; none
\* when the file does not exist or cannot be parsed
load_index(file) ==
    IF file = NoFile
    THEN <<>>
    ELSE LET parsed == json_load(file)
         IN  IF ~parsed.ok
             THEN <<>>
             ELSE [h \in {e.documentHash : e \in parsed.value.entries} |->
                      LET e == CHOOSE e \in parsed.value.entries : e.documentHash = h
                      IN  CacheEntry(e.cacheId, e.documentHash, e.fieldCount)]

\* DiscoveryWorkflow.__init__ of orchestrator o: CacheIndex.__init__ loads
\* the index file as it is now
Construct(o) ==
    /\ ~instances[o].built
    /\ instances' = [instances EXCEPT
                        ![o] = [built |-> TRUE, entries |-> load_index(index_file)]]
    /\ UNCHANGED <<cache_enabled, doc_readable, index_file>>
    /\ UNCHANGED <<checkpoints, entries, sidecar, outputs, cp_result, cache_result,
                   last_stored>>
    /\ UNCHANGED <<coreVars, callVars, obsVars>>

\* orchestrator o runs to the end on a document without fields whose content
\* hash is document_hash: _check_cache looks into o's own entries; on a miss
\* the phases run and _cache_results stores the artifact and calls add_entry,
\* which rewrites the index file from o's entries
InstanceRun(o, document_hash) ==
    /\ instances[o].built
    /\ Len(log) < MaxCalls
    /\ LET mine == instances[o].entries
           hit == check_cache(TRUE, mine, sidecar, document_hash)
           entered == add_entry(mine, CacheId(document_hash), document_hash, 0)
       IN  IF hit # NoHit
           THEN /\ log' = Append(log, [op |-> "run", instance |-> o,
                                       document |-> document_hash,
                                       status |-> "cached"])
                /\ UNCHANGED <<sidecar, index_file, instances>>
           ELSE /\ sidecar' = Put(sidecar, document_hash,
                                  json_dump(GoldenMap(document_hash, 0)))
                /\ instances' = [instances EXCEPT ![o].entries = entered]
                /\ index_file' = save_index(entered)
                /\ log' = Append(log, [op |-> "run", instance |-> o,
                                       document |-> document_hash,
                                       status |-> "complete"])
    /\ UNCHANGED <<cache_enabled, doc_readable>>
    /\ UNCHANGED <<checkpoints, entries, outputs, cp_result, cache_result, last_stored>>
    /\ UNCHANGED <<phases_started, api_calls, save_attempts, cache_lookup>>
    /\ UNCHANGED <<coreVars, callVars>>

InitShared == InitCache

NextShared ==
    \/ \E o \in Instances : Construct(o)
    \/ \E o \in Instances : \E document_hash \in Docs : InstanceRun(o, document_hash)

SpecShared == InitShared /\ [][NextShared]_vars

\* C38: when two orchestrators on one cache directory have each finished a
\* run on a different document, the index file holds the entries of both
\* documents
C38_SharedIndexKeepsBothEntries ==
    \A i, j \in DOMAIN log :
        (/\ log[i].instance # log[j].instance
         /\ log[i].document # log[j].document
         /\ log[i].status = "complete"
         /\ log[j].status = "complete")
        => {log[i].document, log[j].document} \subseteq DOMAIN load_index(index_file)

----------------------------------------------------------------------------
(* What detect_all_pages leaves running *)

\* C39: once detect_all_pages has returned or raised, none of the detection
\* calls of its page tasks is outstanding and none is still to be issued
C39_NoDetectionOutlivesTheCall ==
    dpc \in {"returned", "raised"}
        => \A p \in Tasks : task[p] \notin {"inflight", "waiting"}

====
